---- MODULE Spec2Model ----
(***************************************************************************)
(* State-machine model of the pprl toolkit core: the Embedder and its      *)
(* EmbeddedDataFrame tables (src/src/pprl/embedder/embedder.py), the       *)
(* SimilarityArray matching, and the private-index assignment              *)
(* (src/src/pprl/utils/server_utils.py).                                   *)
(*                                                                         *)
(* Numbers.  Real quantities of the Embedder are held in fixed point:      *)
(* learning_rate and eps in hundredths, matrix entries in units of 1/One.  *)
(* The affinity matrix after training is log(F_match + eps) -              *)
(* log(F_unmatch + eps) pushed through an eigenvalue clamp; it is kept as  *)
(* the matrix of reduced fractions (F_match+eps)/(F_unmatch+eps) under the *)
(* tag "nearest_psd", which decides equality of the logarithms exactly.    *)
(***************************************************************************)
EXTENDS Integers, Sequences, FiniteSets, TLC

VARIABLES
    embedder,   \* the Embedder object E (a record of its attributes)
    edf,        \* the EmbeddedDataFrame objects in scope, by slot
    pickled,    \* the bytes last returned by to_pickle
    trains,     \* number of train() calls that got past their assertions
    last,       \* the last call: its name, arguments, error and return value
    sim,        \* the SimilarityArray match() is called on
    call        \* the add_private_index call: its arguments and its outcome

vars == <<embedder, edf, pickled, trains, last, sim, call>>

-----------------------------------------------------------------------------
(* Option values: an absent column, object or return value is <<>>.        *)

None == <<>>

Some(x) == <<x>>

The(o) == o[1]

RECURSIVE GCD(_, _)
GCD(a, b) == IF b = 0 THEN a ELSE GCD(b, a % b)

RECURSIVE SumOver(_, _)
SumOver(f, S) ==
    IF S = {} THEN 0
    ELSE LET x == CHOOSE y \in S : TRUE IN f[x] + SumOver(f, S \ {x})

-----------------------------------------------------------------------------
(* Bounds and sample inputs of the Embedder life cycle.                     *)

MaxTrain == 2

\* One in fixed point: halves come from the symmetrisation (S + S.T) / 2,
\* hundredths from learning_rate and eps.
One == 2 * 100

Slots == {1}

BfSizes == {3}

Offsets == {0, 1}

NumHashes == {1}

Salts == {""}

FeatureFactories == {<<"name">>}

\* learning_rate and eps in hundredths; 0 and 150, and -1, are the values the
\* assertions of train() reject.
LearningRates == {0, 100, 150}

EpsValues == {-1, 0, 1}

\* The tokens a row's all_features column can hold.
Tokens == {"bo", "ob", "ro"}

\* The all_features column of the data frames handed to embed().
DataFrames ==
    { <<{"bo", "ob"}, {"ro"}>>,
      <<{"ro", "ob"}, {}>>,
      <<{"bo"}>> }

-----------------------------------------------------------------------------
(* Bloom filter encoder (bloom_filters.py).                                 *)

\* The integer value of the digest of str(gram) + str(i) + str(salt).  The
\* digest itself is outside the model: it is a fixed function of its input.
TokenCode(gram) ==
    CASE gram = "bo" -> 6 [] gram = "ob" -> 11 [] gram = "ro" -> 17
      [] gram = "sex<m>" -> 9 [] gram = "sex<f>" -> 14 [] gram = "misc<a>" -> 22
      [] OTHER -> 4

feature_to_big_int_repr(feature, num_hashes, salt) ==
    { TokenCode(gram) + (5 * i) + (IF salt = "" THEN 0 ELSE 3) :
        gram \in feature, i \in 0..(num_hashes - 1) }

big_int_to_vec(feature_ints, size, offset) ==
    { (x % (size - 1)) + offset : x \in feature_ints }

bloom_filter_vector(feature, e) ==
    big_int_to_vec(feature_to_big_int_repr(feature, e.num_hashes, e.salt),
                   e.bf_size, e.offset)

-----------------------------------------------------------------------------
(* Embedder (embedder.py).                                                  *)

Dim(e) == e.bf_size + e.offset

Cells(dim) == (0..(dim - 1)) \X (0..(dim - 1))

initmatrix(dim) == [p \in Cells(dim) |-> IF p[1] = p[2] THEN One ELSE 0]

\* str(self.scm_matrix): the rows of the matrix in order.
StrMatrix(scm, dim) ==
    [form |-> scm.form,
     rows |-> [i \in 1..dim |-> [j \in 1..dim |-> scm.of[<<i - 1, j - 1>>]]]]

\* A variant of compute_checksum that also digests the salt.
ComputeChecksumSalted(e) ==
    << e.feature_factory,
       StrMatrix(e.scm_matrix, Dim(e)),
       <<e.bf_size, e.num_hashes, e.offset>>,
       e.salt >>

\* The md5 digest is taken as injective on what is fed to it.
compute_checksum(e) ==
    << e.feature_factory,
       StrMatrix(e.scm_matrix, Dim(e)),
       <<e.bf_size, e.num_hashes, e.offset>> >>

NewEmbedder(feature_factory, bf_size, num_hashes, offset, salt) ==
    LET e0 == [feature_factory |-> feature_factory,
               ff_args |-> <<>>,
               num_hashes |-> num_hashes,
               bf_size |-> bf_size,
               offset |-> offset,
               salt |-> salt,
               scm_matrix |-> [form |-> "exact", of |-> initmatrix(bf_size + offset)],
               freq_matr_matched |-> initmatrix(bf_size + offset),
               freq_matr_unmatched |-> initmatrix(bf_size + offset),
               checksum |-> None]
    IN  [e0 EXCEPT !.checksum = compute_checksum(e0)]

-----------------------------------------------------------------------------
(* EmbeddedDataFrame (embedder.py).                                         *)

\* The norm of one row: sqrt of the sum of scm_matrix over idx x idx.  It is
\* kept as the pair it is a function of.
calculate_norm(scm, bf_indices) == [scm |-> scm, idx |-> bf_indices]

\* A variant of ChecksumMatches that looks at the [bf_size, num_hashes,
\* offset] part of the digest only.
ChecksumMatchesParams(t, e) == t.embedder_checksum[3] = e.checksum[3]

ChecksumMatches(t, e) == t.embedder_checksum = e.checksum

\* A variant of update_norms that rebuilds the table from its bf_indices
\* column, without the thresholds it had.
UpdateNormsRebuilding(t, e) ==
    IF ~ChecksumMatches(t, e)
    THEN [err |-> "AssertionError", t |-> t]
    ELSE [err |-> "",
          t |-> [t EXCEPT !.thresholds = None,
                          !.bf_norms =
                    Some([n \in 1..Len(t.bf_indices) |->
                            calculate_norm(e.scm_matrix, t.bf_indices[n])])]]

\* update_norms: the bf_norms column, one norm per row.
update_norms(t, e) ==
    IF ~ChecksumMatches(t, e)
    THEN [err |-> "AssertionError", t |-> t]
    ELSE [err |-> "",
          t |-> [t EXCEPT !.bf_norms =
                    Some([n \in 1..Len(t.bf_indices) |->
                            calculate_norm(e.scm_matrix, t.bf_indices[n])])]]

\* to_bloom_matrix: one indicator row per table row, bf_size + offset wide.
to_bloom_matrix(t, e) ==
    IF ~ChecksumMatches(t, e)
    THEN [err |-> "AssertionError", out |-> None]
    ELSE [err |-> "",
          out |-> Some([n \in 1..Len(t.bf_indices) |->
                          [c \in 0..(Dim(e) - 1) |->
                              IF c \in t.bf_indices[n] THEN 1 ELSE 0]])]

\* The product diag_norm1 @ X1 @ A @ X2.T @ diag_norm2, as what it is a
\* function of: the index lists, the norm columns and the matrix A.
Similarities(t1, t2, e) ==
    [x1 |-> t1.bf_indices, x2 |-> t2.bf_indices,
     norms1 |-> The(t1.bf_norms), norms2 |-> The(t2.bf_norms),
     scm |-> e.scm_matrix]

\* A variant of compare that returns an array without thresholds where
\* compare raises for the thresholds it requires.
CompareNeverRequires(d, k1, k2, e, require_thresholds) ==
    IF ~(ChecksumMatches(The(d[k1]), e) /\ ChecksumMatches(The(d[k2]), e))
    THEN [err |-> "AssertionError", d |-> d, out |-> None]
    ELSE
      LET dA == IF The(d[k1]).bf_norms = None
                THEN [d EXCEPT ![k1] = Some(update_norms(The(d[k1]), e).t)]
                ELSE d
          dB == IF The(dA[k2]).bf_norms = None
                THEN [dA EXCEPT ![k2] = Some(update_norms(The(dA[k2]), e).t)]
                ELSE dA
          t1 == The(dB[k1])
          t2 == The(dB[k2])
      IN  [err |-> "", d |-> dB,
           out |-> Some([res |-> Similarities(t1, t2, e),
                         thresholds |->
                            IF t1.thresholds # None /\ t2.thresholds # None
                            THEN Some(<<The(t1.thresholds), The(t2.thresholds)>>)
                            ELSE None,
                         embedder_checksum |-> e.checksum])]

\* Embedder.compare on the tables in slots k1 and k2 of the table store d
\* (the two may be one object).  Returns the error, the tables as compare
\* leaves them, and the SimilarityArray.
compare(d, k1, k2, e, require_thresholds) ==
    IF ~(ChecksumMatches(The(d[k1]), e) /\ ChecksumMatches(The(d[k2]), e))
    THEN [err |-> "AssertionError", d |-> d, out |-> None]
    ELSE
      LET dA == IF The(d[k1]).bf_norms = None
                THEN [d EXCEPT ![k1] = Some(update_norms(The(d[k1]), e).t)]
                ELSE d
          dB == IF The(dA[k2]).bf_norms = None
                THEN [dA EXCEPT ![k2] = Some(update_norms(The(dA[k2]), e).t)]
                ELSE dA
          t1 == The(dB[k1])
          t2 == The(dB[k2])
          res == Similarities(t1, t2, e)
      IN  IF t1.thresholds # None /\ t2.thresholds # None
          THEN [err |-> "", d |-> dB,
                out |-> Some([res |-> res,
                              thresholds |-> Some(<<The(t1.thresholds), The(t2.thresholds)>>),
                              embedder_checksum |-> e.checksum])]
          ELSE IF require_thresholds
          THEN [err |-> "ValueError", d |-> dB, out |-> None]
          ELSE [err |-> "", d |-> dB,
                out |-> Some([res |-> res,
                              thresholds |-> None,
                              embedder_checksum |-> e.checksum])]

\* update_thresholds: the row maxima of compare(self, self) off the
\* diagonal, as the similarity array they are taken from.
update_thresholds(d, k, e) ==
    IF ~ChecksumMatches(The(d[k]), e)
    THEN [err |-> "AssertionError", d |-> d]
    ELSE LET c == compare(d, k, k, e, FALSE)
         IN  [err |-> "",
              d |-> [c.d EXCEPT ![k] =
                       Some([The(c.d[k]) EXCEPT !.thresholds = Some(The(c.out).res)])]]

\* EmbeddedDataFrame.__init__ on a frame whose bf_indices column is given.
NewEDF(bf_indices, e, do_norms, do_thresholds) ==
    LET t0 == [bf_indices |-> bf_indices,
               embedder_checksum |-> e.checksum,
               bf_norms |-> None,
               thresholds |-> None,
               scm_at_creation |-> e.scm_matrix]
        t1 == IF do_norms THEN update_norms(t0, e).t ELSE t0
        d1 == [k \in {1} |-> Some(t1)]
    IN  IF do_thresholds THEN The(update_thresholds(d1, 1, e).d[1]) ELSE t1

\* Embedder.embed: bloom filter indices of every row's all_features.
embed(df, e, do_norms, do_thresholds) ==
    NewEDF([n \in 1..Len(df) |-> bloom_filter_vector(df[n], e)],
           e, do_norms, do_thresholds)

-----------------------------------------------------------------------------
(* Training (embedder.py).                                                  *)

\* _joint_freq_matrix, times two: S + S.T, where S counts for every cell
\* (i, j) the rows n with i in x[n] and j in y[n].
joint_freq_matrix(x, y, dim) ==
    LET S == [p \in Cells(dim) |->
                Cardinality({n \in 1..Len(x) : p[1] \in x[n] /\ p[2] \in y[n]})]
    IN  [p \in Cells(dim) |-> S[p] + S[<<p[2], p[1]>>]]

Reduce(n, d) == LET g == GCD(n, d) IN <<n \div g, d \div g>>

\* np.log(F_match + eps) - np.log(F_unmatch + eps), cell by cell, as the
\* reduced fraction whose logarithm it is.
LogRatio(fm, fu, eps, dim) ==
    [p \in Cells(dim) |-> Reduce(fm[p] + 2 * eps, fu[p] + 2 * eps)]

\* A zero under a logarithm gives -inf or nan, which np.linalg.eig refuses.
Finite(fm, fu, eps, dim) ==
    \A p \in Cells(dim) : fm[p] + 2 * eps > 0 /\ fu[p] + 2 * eps > 0

\* nearest_pos_semi_definite: the eigenvalue clamp of C = (X + X.T) / 2, kept
\* as the matrix C it is a function of (each cell the two logarithms averaged).
nearest_pos_semi_definite(X, dim) ==
    [form |-> "nearest_psd",
     of |-> [p \in Cells(dim) |-> <<X[p], X[<<p[2], p[1]>>]>>]]

\* What train() stores in self.checksum.  Line 599 calls _compute_checksum()
\* and drops what it returns, so the attribute keeps its value.
ChecksumAfterTrain(e_old, e_new) == e_old.checksum

\* A variant of train that adds to the stored frequency matrices whatever
\* update says.
TrainAlwaysUpdates(e, x, y, y_jumbled, update, learning_rate, eps) ==
    IF Len(x) # Len(y) \/ eps < 0 \/ ~(learning_rate > 0 /\ learning_rate <= 100)
    THEN [err |-> "AssertionError", e |-> e]
    ELSE
      LET dim == Dim(e)
          jm == joint_freq_matrix(x, y, dim)
          ju == joint_freq_matrix(x, y_jumbled, dim)
          fm == [p \in Cells(dim) |-> e.freq_matr_matched[p] + learning_rate * jm[p]]
          fu == [p \in Cells(dim) |-> e.freq_matr_unmatched[p] + learning_rate * ju[p]]
          e1 == [e EXCEPT !.freq_matr_matched = fm, !.freq_matr_unmatched = fu]
      IN  IF ~Finite(fm, fu, eps, dim)
          THEN [err |-> "LinAlgError", e |-> e1]
          ELSE [err |-> "",
                e |-> [e1 EXCEPT !.scm_matrix =
                         nearest_pos_semi_definite(LogRatio(fm, fu, eps, dim), dim)]]

\* A variant of train that checks eps and learning_rate after the frequency
\* matrices are updated.
TrainChecksLate(e, x, y, y_jumbled, update, learning_rate, eps) ==
    IF Len(x) # Len(y)
    THEN [err |-> "AssertionError", e |-> e]
    ELSE
      LET dim == Dim(e)
          jm == joint_freq_matrix(x, y, dim)
          ju == joint_freq_matrix(x, y_jumbled, dim)
          fm == [p \in Cells(dim) |->
                   (IF update THEN e.freq_matr_matched[p] ELSE initmatrix(dim)[p])
                   + learning_rate * jm[p]]
          fu == [p \in Cells(dim) |->
                   (IF update THEN e.freq_matr_unmatched[p] ELSE initmatrix(dim)[p])
                   + learning_rate * ju[p]]
          e1 == [e EXCEPT !.freq_matr_matched = fm, !.freq_matr_unmatched = fu]
      IN  IF eps < 0 \/ ~(learning_rate > 0 /\ learning_rate <= 100)
          THEN [err |-> "AssertionError", e |-> e1]
          ELSE IF ~Finite(fm, fu, eps, dim)
          THEN [err |-> "LinAlgError", e |-> e1]
          ELSE [err |-> "",
                e |-> [e1 EXCEPT !.scm_matrix =
                         nearest_pos_semi_definite(LogRatio(fm, fu, eps, dim), dim)]]

\* Embedder.train on index columns x and y, with y_jumbled the shuffled y.
train(e, x, y, y_jumbled, update, learning_rate, eps) ==
    IF Len(x) # Len(y) \/ eps < 0 \/ ~(learning_rate > 0 /\ learning_rate <= 100)
    THEN [err |-> "AssertionError", e |-> e]
    ELSE
      LET dim == Dim(e)
          jm == joint_freq_matrix(x, y, dim)
          ju == joint_freq_matrix(x, y_jumbled, dim)
          fm == [p \in Cells(dim) |->
                   (IF update THEN e.freq_matr_matched[p] ELSE initmatrix(dim)[p])
                   + learning_rate * jm[p]]
          fu == [p \in Cells(dim) |->
                   (IF update THEN e.freq_matr_unmatched[p] ELSE initmatrix(dim)[p])
                   + learning_rate * ju[p]]
          e1 == [e EXCEPT !.freq_matr_matched = fm, !.freq_matr_unmatched = fu]
      IN  IF ~Finite(fm, fu, eps, dim)
          THEN [err |-> "LinAlgError", e |-> e1]
          ELSE LET e2 == [e1 EXCEPT !.scm_matrix =
                            nearest_pos_semi_definite(LogRatio(fm, fu, eps, dim), dim)]
               IN  [err |-> "",
                    e |-> [e2 EXCEPT !.checksum = ChecksumAfterTrain(e, e2)]]

-----------------------------------------------------------------------------
(* Pickling (embedder.py).                                                  *)

\* dill.dumps(self): the attributes in the order __init__ sets them.
Dumps(e) ==
    << e.feature_factory, e.ff_args, e.num_hashes, e.bf_size, e.offset, e.salt,
       e.scm_matrix, e.freq_matr_matched, e.freq_matr_unmatched, e.checksum >>

Loads(b) ==
    [feature_factory |-> b[1], ff_args |-> b[2], num_hashes |-> b[3],
     bf_size |-> b[4], offset |-> b[5], salt |-> b[6], scm_matrix |-> b[7],
     freq_matr_matched |-> b[8], freq_matr_unmatched |-> b[9], checksum |-> b[10]]

to_pickle(e) == Dumps(e)

\* from_pickle(path=None, pickled=bytes): bytes is an option value.
from_pickle(bytes) ==
    IF bytes = None
    THEN [err |-> "ValueError", out |-> None]
    ELSE LET e == Loads(The(bytes))
         IN  IF e.checksum # compute_checksum(e)
             THEN [err |-> "AssertionError", out |-> None]
             ELSE [err |-> "", out |-> Some(e)]

-----------------------------------------------------------------------------
(* The Embedder life cycle: one action per call.                            *)

Call(op, args, err, out) == [op |-> op, args |-> args, err |-> err, out |-> out]

Init ==
    /\ embedder \in { NewEmbedder(ff, b, h, o, s) :
                        ff \in FeatureFactories, b \in BfSizes, h \in NumHashes,
                        o \in Offsets, s \in Salts }
    /\ edf = [k \in Slots |-> None]
    /\ pickled = None
    /\ trains = 0
    /\ last = Call("Embedder", <<>>, "", None)
    /\ sim = None
    /\ call = None

Embed(k, df, do_norms, do_thresholds) ==
    /\ edf' = [edf EXCEPT ![k] = Some(embed(df, embedder, do_norms, do_thresholds))]
    /\ last' = Call("embed", <<k>>, "", None)
    /\ UNCHANGED <<embedder, pickled, trains, sim, call>>

\* A variant of UpdateNorms that also stores the recomputed digest in the
\* Embedder's checksum.
UpdateNormsRefreshing(k) ==
    /\ edf[k] # None
    /\ LET r == update_norms(The(edf[k]), embedder)
       IN  /\ edf' = [edf EXCEPT ![k] = Some(r.t)]
           /\ last' = Call("update_norms", <<k>>, r.err, None)
    /\ embedder' = [embedder EXCEPT !.checksum = compute_checksum(embedder)]
    /\ UNCHANGED <<pickled, trains, sim, call>>

UpdateNorms(k) ==
    /\ edf[k] # None
    /\ LET r == update_norms(The(edf[k]), embedder)
       IN  /\ edf' = [edf EXCEPT ![k] = Some(r.t)]
           /\ last' = Call("update_norms", <<k>>, r.err, None)
    /\ UNCHANGED <<embedder, pickled, trains, sim, call>>

UpdateThresholds(k) ==
    /\ edf[k] # None
    /\ LET r == update_thresholds(edf, k, embedder)
       IN  /\ edf' = r.d
           /\ last' = Call("update_thresholds", <<k>>, r.err, None)
    /\ UNCHANGED <<embedder, pickled, trains, sim, call>>

ToBloomMatrix(k) ==
    /\ edf[k] # None
    /\ LET r == to_bloom_matrix(The(edf[k]), embedder)
       IN  last' = Call("to_bloom_matrix", <<k>>, r.err, r.out)
    /\ UNCHANGED <<embedder, edf, pickled, trains, sim, call>>

Compare(k1, k2, require_thresholds) ==
    /\ edf[k1] # None /\ edf[k2] # None
    /\ LET r == compare(edf, k1, k2, embedder, require_thresholds)
       IN  /\ edf' = r.d
           /\ last' = Call("compare", <<k1, k2>>, r.err, r.out)
    /\ UNCHANGED <<embedder, pickled, trains, sim, call>>

Train(k1, k2, update, learning_rate, eps) ==
    /\ edf[k1] # None /\ edf[k2] # None
    /\ trains < MaxTrain
    /\ LET x == The(edf[k1]).bf_indices
           y == The(edf[k2]).bf_indices
       IN  \E perm \in Permutations(1..Len(y)) :
             LET y_jumbled == [n \in 1..Len(y) |-> y[perm[n]]]
                 r == train(embedder, x, y, y_jumbled, update, learning_rate, eps)
             IN  /\ embedder' = r.e
                 /\ trains' = IF r.err = "AssertionError" THEN trains ELSE trains + 1
                 /\ last' = Call("train", <<k1, k2>>, r.err, None)
    /\ UNCHANGED <<edf, pickled, sim, call>>

ToPickle ==
    /\ pickled' = Some(to_pickle(embedder))
    /\ last' = Call("to_pickle", <<>>, "", pickled')
    /\ UNCHANGED <<embedder, edf, trains, sim, call>>

FromPickle(bytes) ==
    /\ LET r == from_pickle(bytes)
       IN  last' = Call("from_pickle", bytes, r.err, r.out)
    /\ UNCHANGED <<embedder, edf, pickled, trains, sim, call>>

Next ==
    \/ \E k \in DOMAIN edf, df \in DataFrames, n \in BOOLEAN, t \in BOOLEAN : Embed(k, df, n, t)
    \/ \E k \in DOMAIN edf : UpdateNorms(k)
    \/ \E k \in DOMAIN edf : UpdateThresholds(k)
    \/ \E k \in DOMAIN edf : ToBloomMatrix(k)
    \/ \E k1 \in DOMAIN edf, k2 \in DOMAIN edf, r \in BOOLEAN : Compare(k1, k2, r)
    \/ \E k1 \in DOMAIN edf, k2 \in DOMAIN edf, u \in BOOLEAN,
          lr \in LearningRates, eps \in EpsValues : Train(k1, k2, u, lr, eps)

Spec == Init /\ [][Next]_vars

\* The life cycle of an Embedder that is trained, pickled and loaded.
NextPickle ==
    \/ \E k \in DOMAIN edf, df \in DataFrames : Embed(k, df, TRUE, FALSE)
    \/ \E k1 \in DOMAIN edf, k2 \in DOMAIN edf, u \in BOOLEAN,
          lr \in LearningRates, eps \in EpsValues : Train(k1, k2, u, lr, eps)
    \/ ToPickle
    \/ \E bytes \in {None, pickled} : FromPickle(bytes)

SpecPickle == Init /\ [][NextPickle]_vars

-----------------------------------------------------------------------------
(* Claims about the Embedder life cycle.                                    *)

TableOps == {"update_norms", "update_thresholds", "to_bloom_matrix", "compare"}

\* C1: the stored checksum is the digest of the Embedder's current feature
\* factory, affinity matrix and [bf_size, num_hashes, offset], after any
\* sequence of construction and train() calls.
C1_ChecksumIsCurrentDigest == embedder.checksum = compute_checksum(embedder)

\* C2: every operation that consumes a table embedded before a train() that
\* changed the affinity matrix fails with the checksum assertion.
C2_StaleTableIsRejected ==
    (/\ last.op \in TableOps
     /\ \E i \in 1..Len(last.args) :
          The(edf[last.args[i]]).scm_at_creation # embedder.scm_matrix)
    => last.err = "AssertionError"

\* C3: from_pickle(pickled=to_pickle(E)) succeeds and returns an Embedder
\* with the attributes of E.
C3_PickleRoundTrip ==
    (last.op = "from_pickle" /\ last.args = Some(to_pickle(embedder)))
    => (last.err = "" /\ last.out = Some(embedder))

-----------------------------------------------------------------------------
(* SimilarityArray.match (embedder.py).  A similarity array is a record:    *)
(* S, the scores by row and column counted from 0, and thresholds, the     *)
(* optional pair of per-row and per-column thresholds.                      *)

MaxCells == 4

MaxSide == 3

SimValues == {0, 1, 2}

ThresholdValues == {0, 1}

Cutoffs == {0, 1}

NRows(S) == Cardinality(DOMAIN S)

NCols(S) == Cardinality(DOMAIN S[0])

CellsOf(S) == (DOMAIN S) \X (DOMAIN S[0])

\* Lines 245-246: the cells below their row's or their column's threshold
\* plus rel_cutoff.
ThresholdMask(S, thresholds, rel_cutoff) ==
    { p \in CellsOf(S) :
        \/ S[p[1]][p[2]] < thresholds[1][p[1]] + rel_cutoff
        \/ S[p[1]][p[2]] < thresholds[2][p[2]] + rel_cutoff }

\* A variant of AbsMask that also masks the cells equal to abs_cutoff.
AbsMaskInclusive(S, abs_cutoff) == { p \in CellsOf(S) : S[p[1]][p[2]] <= abs_cutoff }

\* Line 250: the cells below abs_cutoff.
AbsMask(S, abs_cutoff) == { p \in CellsOf(S) : S[p[1]][p[2]] < abs_cutoff }

\* The index arrays numpy returns list the cells row by row.
RECURSIVE RowMajor(_)
RowMajor(cells) ==
    IF cells = {} THEN <<>>
    ELSE LET first == CHOOSE p \in cells :
                        \A q \in cells :
                            p[1] < q[1] \/ (p[1] = q[1] /\ p[2] <= q[2])
         IN  <<first>> \o RowMajor(cells \ {first})

\* Line 252: ma.where(S >= abs_cutoff), the cells not masked whose score
\* reaches abs_cutoff.
Where(S, mask, abs_cutoff) ==
    { p \in CellsOf(S) : p \notin mask /\ S[p[1]][p[2]] >= abs_cutoff }

\* The assignments of a matrix: min(N, M) cells, no two in one row or column.
Assignments(S) ==
    { a \in SUBSET CellsOf(S) :
        /\ Cardinality(a) = (IF NRows(S) <= NCols(S) THEN NRows(S) ELSE NCols(S))
        /\ \A p \in a, q \in a : p # q => (p[1] # q[1] /\ p[2] # q[2]) }

Total(S, a) == SumOver([p \in a |-> S[p[1]][p[2]]], a)

\* scipy's linear_sum_assignment(S, maximize=True).  It reads the data of the
\* masked array, not its mask; among the assignments of greatest total the
\* one it returns is not specified.
linear_sum_assignment(S) ==
    { a \in Assignments(S) : \A b \in Assignments(S) : Total(S, b) <= Total(S, a) }

\* The mask after lines 243-250 (the caller has checked that the thresholds
\* are there when they are required).
MaskOf(s, abs_cutoff, rel_cutoff, require_thresholds) ==
    (IF require_thresholds
     THEN ThresholdMask(s.S, The(s.thresholds), rel_cutoff)
     ELSE {})
    \cup AbsMask(s.S, abs_cutoff)

\* A variant of DataOf in which a masked cell reads as 0, as S.filled(0).
DataOfFilled(S, mask) ==
    [i \in DOMAIN S |-> [j \in DOMAIN S[i] |-> IF <<i, j>> \in mask THEN 0 ELSE S[i][j]]]

\* What line 256 hands to linear_sum_assignment: masking a cell leaves its
\* score in the array's data.
DataOf(S, mask) == S

\* The pair of index arrays for a list of cells.
IndexArrays(cells) ==
    << [k \in 1..Len(cells) |-> cells[k][1]], [k \in 1..Len(cells) |-> cells[k][2]] >>

\* A variant of match that masks by abs_cutoff alone where the array has
\* no thresholds and match raises.
MatchWithoutThresholds(s, abs_cutoff, rel_cutoff, hungarian, require_thresholds) ==
    LET mask == MaskOf(s, abs_cutoff, rel_cutoff,
                       require_thresholds /\ s.thresholds # None)
    IN  IF hungarian
        THEN { [err |-> "",
                out |-> Some(IndexArrays(RowMajor(hungarian_match \ mask)))] :
               hungarian_match \in linear_sum_assignment(DataOf(s.S, mask)) }
        ELSE { [err |-> "",
                out |-> Some(IndexArrays(RowMajor(Where(s.S, mask, abs_cutoff))))] }

\* A variant of match that returns before the assignment step.
MatchWithoutAssignment(s, abs_cutoff, rel_cutoff, hungarian, require_thresholds) ==
    IF require_thresholds /\ s.thresholds = None
    THEN { [err |-> "ValueError", out |-> None] }
    ELSE LET mask == MaskOf(s, abs_cutoff, rel_cutoff, require_thresholds)
         IN  { [err |-> "",
                out |-> Some(IndexArrays(RowMajor(Where(s.S, mask, abs_cutoff))))] }

\* SimilarityArray.match: the set of its possible outcomes, one for each
\* assignment linear_sum_assignment may return.
match(s, abs_cutoff, rel_cutoff, hungarian, require_thresholds) ==
    IF require_thresholds /\ s.thresholds = None
    THEN { [err |-> "ValueError", out |-> None] }
    ELSE LET mask == MaskOf(s, abs_cutoff, rel_cutoff, require_thresholds)
         IN  IF hungarian
             THEN { [err |-> "",
                     out |-> Some(IndexArrays(RowMajor(hungarian_match \ mask)))] :
                    hungarian_match \in linear_sum_assignment(DataOf(s.S, mask)) }
             ELSE { [err |-> "",
                     out |-> Some(IndexArrays(RowMajor(Where(s.S, mask, abs_cutoff))))] }

Shapes == { nm \in (1..MaxSide) \X (1..MaxSide) : nm[1] * nm[2] <= MaxCells }

SimilarityArrays(shapes) ==
    UNION { LET rows == 0..(nm[1] - 1)
                cols == 0..(nm[2] - 1)
            IN  { [S |-> S, thresholds |-> th] :
                    S \in [rows -> [cols -> SimValues]],
                    th \in {None} \cup
                           { Some(<<t1, t2>>) : t1 \in [rows -> ThresholdValues],
                                                t2 \in [cols -> ThresholdValues] } }
          : nm \in shapes }

InitMatch ==
    /\ sim \in SimilarityArrays(Shapes)
    /\ last = Call("SimilarityArray", <<>>, "", None)
    /\ embedder = None
    /\ edf = <<>>
    /\ pickled = None
    /\ trains = 0
    /\ call = None

Match(abs_cutoff, rel_cutoff, hungarian, require_thresholds) ==
    /\ last.op = "SimilarityArray"
    /\ \E r \in match(sim, abs_cutoff, rel_cutoff, hungarian, require_thresholds) :
         last' = Call("match",
                      [abs_cutoff |-> abs_cutoff, rel_cutoff |-> rel_cutoff,
                       hungarian |-> hungarian,
                       require_thresholds |-> require_thresholds],
                      r.err, r.out)
    /\ UNCHANGED <<embedder, edf, pickled, trains, sim, call>>

NextMatch ==
    \E a \in Cutoffs, r \in Cutoffs, h \in BOOLEAN, t \in BOOLEAN : Match(a, r, h, t)

SpecMatch == InitMatch /\ [][NextMatch]_vars

-----------------------------------------------------------------------------
(* Claims about match().                                                    *)

Matched == last.op = "match" /\ last.err = ""

\* The cells match() returned, and the two index arrays.
ReturnedRows == The(last.out)[1]

ReturnedCols == The(last.out)[2]

ReturnedCells == { <<ReturnedRows[k], ReturnedCols[k]>> : k \in 1..Len(ReturnedRows) }

NoRepeats(q) == \A k1 \in 1..Len(q), k2 \in 1..Len(q) : k1 # k2 => q[k1] # q[k2]

Max3(a, b, c) ==
    IF a >= b /\ a >= c THEN a ELSE IF b >= c THEN b ELSE c

\* C4: on an array that carries thresholds, whatever the cutoffs and flags,
\* no returned pair (i, j) has S[i,j] below
\* max(t1[i] + rel_cutoff, t2[j] + rel_cutoff, abs_cutoff).
C4_ThresholdObedience ==
    (Matched /\ sim.thresholds # None)
    => \A p \in ReturnedCells :
         sim.S[p[1]][p[2]] >=
            Max3(The(sim.thresholds)[1][p[1]] + last.args.rel_cutoff,
                 The(sim.thresholds)[2][p[2]] + last.args.rel_cutoff,
                 last.args.abs_cutoff)

\* C5: with hungarian the returned row indices are pairwise distinct, so are
\* the column indices, and there are at most min(N, M) pairs.
C5_HungarianOneToOne ==
    (Matched /\ last.args.hungarian)
    => /\ NoRepeats(ReturnedRows)
       /\ NoRepeats(ReturnedCols)
       /\ Len(ReturnedRows) <= NRows(sim.S)
       /\ Len(ReturnedRows) <= NCols(sim.S)

C5_Witness ==
    /\ Matched /\ last.args.hungarian
    /\ Len(ReturnedRows) = 2
    /\ \E p \in CellsOf(sim.S) : p \notin ReturnedCells /\ sim.S[p[1]][p[2]] >= last.args.abs_cutoff

\* The cells that survive the masking match() applied in this call.
Survivors ==
    { p \in CellsOf(sim.S) :
        /\ sim.S[p[1]][p[2]] >= last.args.abs_cutoff
        /\ last.args.require_thresholds =>
             /\ sim.S[p[1]][p[2]] >= The(sim.thresholds)[1][p[1]] + last.args.rel_cutoff
             /\ sim.S[p[1]][p[2]] >= The(sim.thresholds)[2][p[2]] + last.args.rel_cutoff }

\* C6: with hungarian the result is the surviving part of an assignment of
\* greatest total similarity on the unmasked scores, and so a subset of what
\* hungarian = false returns for the same cutoffs.
C6_HungarianIsMaskedOptimum ==
    (Matched /\ last.args.hungarian)
    => /\ \E a \in Assignments(sim.S) :
            /\ \A b \in Assignments(sim.S) : Total(sim.S, b) <= Total(sim.S, a)
            /\ ReturnedCells = a \cap Survivors
       /\ \A r \in match(sim, last.args.abs_cutoff, last.args.rel_cutoff, FALSE,
                         last.args.require_thresholds) :
            \A k \in 1..Len(ReturnedRows) :
              \E n \in 1..Len(The(r.out)[1]) :
                 /\ The(r.out)[1][n] = ReturnedRows[k]
                 /\ The(r.out)[2][n] = ReturnedCols[k]

\* An assigned cell was masked: the optimum on the unmasked scores goes
\* through a cell that does not survive.
C6_Witness ==
    /\ Matched /\ last.args.hungarian
    /\ NRows(sim.S) = 2 /\ NCols(sim.S) = 2
    /\ Cardinality(ReturnedCells) = 1
    /\ Cardinality(Survivors) >= 2

\* C7: without hungarian the result lists the surviving cells, each once, and
\* nothing else.
C7_AllSurvivorsReturned ==
    (Matched /\ ~last.args.hungarian)
    => /\ ReturnedCells = Survivors
       /\ Len(ReturnedRows) = Cardinality(Survivors)
       /\ Len(ReturnedCols) = Len(ReturnedRows)

\* A row index occurs in two returned pairs, with thresholds applied.
C7_Witness ==
    /\ Matched /\ ~last.args.hungarian /\ last.args.require_thresholds
    /\ ~NoRepeats(ReturnedRows)
    /\ Survivors # CellsOf(sim.S)

-----------------------------------------------------------------------------
(* add_private_index (server_utils.py; perform.py holds the same text).     *)
(* A data frame is the list of its row labels, top to bottom, and the set   *)
(* of its column names; positions count from 0.                             *)

MaxLen == 2

\* Row labels of a frame of n rows: the default 0..n-1, or the same labels
\* in reverse order.
Labelings(n) == { [k \in 1..n |-> k - 1], [k \in 1..n |-> n - k] }

Frames(columns) ==
    UNION { { [labels |-> l, columns |-> columns] : l \in Labelings(n) } : n \in 0..MaxLen }

\* Lists of length n over the set S.
Lists(S, n) == [1..n -> S]

\* a[lo:hi] of Python, on a list held from position 1.
Slice(a, lo, hi) ==
    LET stop == IF hi < Len(a) THEN hi ELSE Len(a)
    IN  IF lo >= stop THEN <<>> ELSE [k \in 1..(stop - lo) |-> a[lo + k]]

\* rng.permutation(range(size_assumed, 3 * size_assumed))[:outer_join_size]:
\* any list of distinct values of the range, of that length or as long as
\* the range.
PrivateIndexDraws(size_assumed, outer_join_size) ==
    LET range == size_assumed..(3 * size_assumed - 1)
        n == IF outer_join_size < 2 * size_assumed
             THEN outer_join_size ELSE 2 * size_assumed
    IN  { a \in Lists(range, n) : \A i \in 1..n, j \in 1..n : i # j => a[i] # a[j] }

\* A variant of NoRepeatedIndex that looks at the first index array only.
NoRepeatedIndexLeft(m) ==
    Len(m[1]) = Cardinality({ m[1][k] : k \in 1..Len(m[1]) })

\* len(x) == len(np.unique(x)) for both index arrays.
NoRepeatedIndex(m) ==
    /\ Len(m[1]) = Cardinality({ m[1][k] : k \in 1..Len(m[1]) })
    /\ Len(m[2]) = Cardinality({ m[2][k] : k \in 1..Len(m[2]) })

\* A variant of IlocSet with the broadcasting of a bare numpy assignment:
\* one value is written to every row.
IlocSetBroadcast(col, rows, values) ==
    IF Len(values) = 1
    THEN [err |-> "",
          col |-> [k \in 1..Len(col) |->
                     IF \E n \in 1..Len(rows) : rows[n] = k - 1
                     THEN values[1] ELSE col[k]]]
    ELSE IF Len(rows) = Len(values)
    THEN [err |-> "",
          col |-> [k \in 1..Len(col) |->
                     IF \E n \in 1..Len(rows) : rows[n] = k - 1
                     THEN values[CHOOSE n \in 1..Len(rows) : rows[n] = k - 1]
                     ELSE col[k]]]
    ELSE [err |-> "ValueError", col |-> col]

\* pandas, frame.iloc[rows, column] = values, with rows a list of positions:
\* the lengths must agree, except that nothing is assigned, without error,
\* when there is no row and values has one element or one per row of the
\* frame.
IlocSet(col, rows, values) ==
    IF Len(rows) = Len(values)
    THEN [err |-> "",
          col |-> [k \in 1..Len(col) |->
                     IF \E n \in 1..Len(rows) : rows[n] = k - 1
                     THEN values[CHOOSE n \in 1..Len(rows) :
                                   /\ rows[n] = k - 1
                                   /\ \A n2 \in 1..Len(rows) : rows[n2] = k - 1 => n2 <= n]
                     ELSE col[k]]]
    ELSE IF Len(rows) = 0 /\ (Len(values) = Len(col) \/ Len(values) = 1)
    THEN [err |-> "", col |-> col]
    ELSE [err |-> "ValueError", col |-> col]

\* A variant of AssignInner that reads the index arrays as row labels, as
\* frame.loc does.
AssignInnerByLabel(labels, col, positions, values) ==
    IlocSet(col,
            [n \in 1..Len(positions) |->
               (CHOOSE k \in 1..Len(labels) : labels[k] = positions[n]) - 1],
            values)

\* Lines 66-67: the matched rows, by position.
AssignInner(labels, col, positions, values) == IlocSet(col, positions, values)

\* out[colname] == 0 as a list of positions, top to bottom.
RECURSIVE Ascending(_)
Ascending(S) ==
    IF S = {} THEN <<>>
    ELSE LET m == CHOOSE x \in S : \A y \in S : x <= y
         IN  <<m>> \o Ascending(S \ {m})

ZeroRows(col) == Ascending({ k - 1 : k \in { i \in 1..Len(col) : col[i] = 0 } })

\* A variant of RightRemainder that starts where the left remainder starts.
RightRemainderFromInner(private_index, inner_join_size, data1_size, outer_join_size) ==
    Slice(private_index, inner_join_size,
          inner_join_size + (outer_join_size - data1_size))

\* Lines 74-76: the part of the pool for the unmatched rows of the second frame.
RightRemainder(private_index, inner_join_size, data1_size, outer_join_size) ==
    Slice(private_index, data1_size, outer_join_size)

\* add_private_index, given the pool private_index that line 56 draws when
\* the assertions of lines 44-50 hold.
add_private_index(df1, df2, m, size_assumed, colname, private_index) ==
    IF colname \in df1.columns \/ colname \in df2.columns
    THEN [err |-> "AssertionError", out |-> None]
    ELSE IF ~NoRepeatedIndex(m)
    THEN [err |-> "AssertionError", out |-> None]
    ELSE
      LET inner_join_size == Len(m[1])
          outer_join_size == Len(df1.labels) + Len(df2.labels) - inner_join_size
          zero1 == [k \in 1..Len(df1.labels) |-> 0]
          zero2 == [k \in 1..Len(df2.labels) |-> 0]
          a1 == AssignInner(df1.labels, zero1, m[1], Slice(private_index, 0, inner_join_size))
          a2 == AssignInner(df2.labels, zero2, m[2], Slice(private_index, 0, inner_join_size))
          data1_size == Len(df1.labels)
          b1 == IlocSet(a1.col, ZeroRows(a1.col),
                        Slice(private_index, inner_join_size, data1_size))
          b2 == IlocSet(a2.col, ZeroRows(a2.col),
                        RightRemainder(private_index, inner_join_size, data1_size,
                                       outer_join_size))
      IN  IF a1.err # "" THEN [err |-> a1.err, out |-> None]
          ELSE IF a2.err # "" THEN [err |-> a2.err, out |-> None]
          ELSE IF b1.err # "" THEN [err |-> b1.err, out |-> None]
          ELSE IF b2.err # "" THEN [err |-> b2.err, out |-> None]
          ELSE [err |-> "", out |-> Some(<<b1.col, b2.col>>)]

\* Values of size_assumed: none, too few for two rows, enough for two rows.
SizesAssumed == {0, 1, 2}

\* The arguments of a call: two frames, a match made of two index arrays of
\* one length holding positions of the frames, and size_assumed.
IndexCalls(sizes) ==
    UNION { { [df1 |-> df1, df2 |-> df2, match |-> <<m1, m2>>,
               size_assumed |-> sa, colname |-> "private_index",
               private_index |-> None, err |-> "", out |-> None, done |-> FALSE] :
                m1 \in Lists(0..(Len(df1.labels) - 1), n),
                m2 \in Lists(0..(Len(df2.labels) - 1), n),
                sa \in sizes }
          : df1 \in Frames({"x"}) \cup Frames({"x", "private_index"}),
            df2 \in Frames({"y"}),
            n \in 0..MaxLen }

InitIndex ==
    /\ call \in IndexCalls(SizesAssumed)
    /\ last = Call("", <<>>, "", None)
    /\ sim = None
    /\ embedder = None
    /\ edf = <<>>
    /\ pickled = None
    /\ trains = 0

AddPrivateIndex ==
    /\ ~call.done
    /\ LET outer == Len(call.df1.labels) + Len(call.df2.labels) - Len(call.match[1])
       IN  \E private_index \in PrivateIndexDraws(call.size_assumed, outer) :
             LET r == add_private_index(call.df1, call.df2, call.match,
                                        call.size_assumed, call.colname, private_index)
             IN  call' = [call EXCEPT !.private_index =
                                          IF r.err = "AssertionError"
                                          THEN None ELSE Some(private_index),
                                      !.err = r.err, !.out = r.out, !.done = TRUE]
    /\ UNCHANGED <<embedder, edf, pickled, trains, last, sim>>

NextIndex == AddPrivateIndex

SpecIndex == InitIndex /\ [][NextIndex]_vars

-----------------------------------------------------------------------------
(* Claims about add_private_index.                                          *)

Returned == call.done /\ call.err = ""

Out1 == The(call.out)[1]

Out2 == The(call.out)[2]

Matched1 == { call.match[1][k] : k \in 1..Len(call.match[1]) }

Matched2 == { call.match[2][k] : k \in 1..Len(call.match[2]) }

SizeCoversFrames ==
    /\ call.size_assumed >= Len(call.df1.labels)
    /\ call.size_assumed >= Len(call.df2.labels)

\* C8: for a one-to-one match and size_assumed >= max(|T1|, |T2|) the values
\* of both tables are |T1| + |T2| - |match| distinct values of
\* [size_assumed, 3 * size_assumed); no two rows of one table share a value,
\* and an unmatched row shares its value with no row of the other table.
C8_PrivateIndexDisjoint ==
    (Returned /\ SizeCoversFrames)
    => /\ Cardinality({ Out1[k] : k \in 1..Len(Out1) } \cup { Out2[k] : k \in 1..Len(Out2) })
            = Len(call.df1.labels) + Len(call.df2.labels) - Len(call.match[1])
       /\ \A k \in 1..Len(Out1) :
            Out1[k] >= call.size_assumed /\ Out1[k] < 3 * call.size_assumed
       /\ \A k \in 1..Len(Out2) :
            Out2[k] >= call.size_assumed /\ Out2[k] < 3 * call.size_assumed
       /\ Len(Out1) = Len(call.df1.labels) /\ Len(Out2) = Len(call.df2.labels)
       /\ NoRepeats(Out1) /\ NoRepeats(Out2)
       /\ \A k1 \in 1..Len(Out1), k2 \in 1..Len(Out2) :
            ((k1 - 1) \notin Matched1 \/ (k2 - 1) \notin Matched2) => Out1[k1] # Out2[k2]

\* Two frames of two rows, one matched pair, one unmatched row on each side.
C8_Witness ==
    /\ Returned /\ SizeCoversFrames
    /\ Len(call.df1.labels) = 2 /\ Len(call.df2.labels) = 2
    /\ Len(call.match[1]) = 1

\* C9: for every position k of the match, row match[0][k] of the first table
\* and row match[1][k] of the second carry one value, whatever the order of
\* the match and whatever the row labels.
C9_PrivateIndexConsistent ==
    Returned
    => \A k \in 1..Len(call.match[1]) :
         Out1[call.match[1][k] + 1] = Out2[call.match[2][k] + 1]

\* A match in decreasing order on frames whose labels are not the default.
C9_Witness ==
    /\ Returned
    /\ call.match[1] = <<1, 0>>
    /\ call.match[2] = <<0, 1>>
    /\ call.df1.labels = <<1, 0>>
    /\ call.df2.labels = <<1, 0>>

\* C10: a call whose match repeats an index in either array fails and
\* returns no tables.
C10_ManyToOneRejected ==
    (call.done /\ (~NoRepeats(call.match[1]) \/ ~NoRepeats(call.match[2])))
    => (call.err = "AssertionError" /\ call.out = None)

C10_Witness ==
    /\ call.done
    /\ NoRepeats(call.match[1]) /\ ~NoRepeats(call.match[2])
    /\ "private_index" \notin call.df1.columns
    /\ call.size_assumed >= Len(call.df1.labels)
    /\ call.err = "AssertionError"

OuterJoinSize ==
    Len(call.df1.labels) + Len(call.df2.labels) - Len(call.match[1])

-----------------------------------------------------------------------------
(* BloomFilterEncoder called on its own (bloom_filters.py): the encoder's   *)
(* parameters and the token list are the caller's.                          *)

MaxBfSize == 3

MaxTokens == 2

\* The integer values a digest can take, as far as the model follows them.
DigestValues == 0..((2 * MaxBfSize) - 1)

\* Token lists: a list can hold a token twice.
Features == UNION { [1..n -> Tokens] : n \in 0..MaxTokens }

\* BloomFilterEncoder(size, num_hashes, offset, salt), by the arguments of
\* the constructor.
BloomFilterEncoders ==
    [bf_size : 1..MaxBfSize, num_hashes : 0..2, offset : {0, 1}, salt : {"", "s"}]

\* len(vec_idx): one integer for every token of the list and every hash.
RawLength(feature, enc) == Len(feature) * enc.num_hashes

\* x % self.size with self.size = size - 1 = 0.
ModuloByZero(feature, enc) == enc.bf_size - 1 = 0 /\ RawLength(feature, enc) > 0

TokensOf(feature) == { feature[n] : n \in 1..Len(feature) }

\* bloom_filter_vector on a list: the deduplicated indices, as a set.
BloomVector(feature, enc) ==
    IF ModuloByZero(feature, enc)
    THEN [err |-> "ZeroDivisionError", out |-> None]
    ELSE IF RawLength(feature, enc) = 0
    THEN [err |-> "", out |-> Some({})]
    ELSE [err |-> "", out |-> Some(bloom_filter_vector(TokensOf(feature), enc))]

\* bloom_filter_vector_collision_fraction: the indices and the fraction
\* 1 - len(vec_idx_deduped) / len(vec_idx), kept as <<deduped, raw>>.
bloom_filter_vector_collision_fraction(feature, enc) ==
    LET v == BloomVector(feature, enc)
    IN  IF v.err # "" THEN [err |-> v.err, out |-> None, fraction |-> None]
        ELSE IF RawLength(feature, enc) = 0
        THEN [err |-> "ZeroDivisionError", out |-> None, fraction |-> None]
        ELSE [err |-> "", out |-> v.out,
              fraction |-> Some(<<Cardinality(The(v.out)), RawLength(feature, enc)>>)]

InitBloom ==
    /\ call \in { [enc |-> enc, feature |-> f, op |-> "", err |-> "", out |-> None,
                   fraction |-> None, done |-> FALSE] :
                    enc \in BloomFilterEncoders, f \in Features }
    /\ last = Call("", <<>>, "", None)
    /\ sim = None
    /\ embedder = None
    /\ edf = <<>>
    /\ pickled = None
    /\ trains = 0

BloomFilterVector ==
    /\ ~call.done
    /\ LET r == BloomVector(call.feature, call.enc)
       IN  call' = [call EXCEPT !.op = "bloom_filter_vector", !.err = r.err,
                                !.out = r.out, !.done = TRUE]
    /\ UNCHANGED <<embedder, edf, pickled, trains, last, sim>>

BloomFilterVectorCollisionFraction ==
    /\ ~call.done
    /\ LET r == bloom_filter_vector_collision_fraction(call.feature, call.enc)
       IN  call' = [call EXCEPT !.op = "bloom_filter_vector_collision_fraction",
                                !.err = r.err, !.out = r.out,
                                !.fraction = r.fraction, !.done = TRUE]
    /\ UNCHANGED <<embedder, edf, pickled, trains, last, sim>>

NextBloom == BloomFilterVector \/ BloomFilterVectorCollisionFraction

SpecBloom == InitBloom /\ [][NextBloom]_vars

-----------------------------------------------------------------------------
(* Claims about the Bloom filter encoder.                                   *)

\* C12: the indices emitted for a token list are (d mod size) + offset for
\* the digests d of its tokens and hash numbers, with size the size the
\* encoder was constructed with; so every value of [offset, offset + size)
\* is the index of some digest.
C12_IndexIsDigestModSize ==
    (call.done /\ call.err = "")
    => /\ The(call.out) =
            { (d % call.enc.bf_size) + call.enc.offset :
                d \in feature_to_big_int_repr(TokensOf(call.feature),
                                              call.enc.num_hashes, call.enc.salt) }
       /\ call.enc.bf_size >= 2
          => \A v \in call.enc.offset..(call.enc.offset + call.enc.bf_size - 1) :
               \E d \in DigestValues :
                  big_int_to_vec({d}, call.enc.bf_size, call.enc.offset) = {v}

\* C13: for every token list and every encoder with size >= 2,
\* num_hashes >= 1 and offset >= 0, both functions return pairwise distinct
\* integers of [offset, offset + size).
C13_IndicesReturnedInRange ==
    (call.done /\ call.enc.bf_size >= 2 /\ call.enc.num_hashes >= 1)
    => /\ call.err = ""
       /\ call.out # None
       /\ \A v \in The(call.out) :
            v >= call.enc.offset /\ v < call.enc.offset + call.enc.bf_size

-----------------------------------------------------------------------------
(* embed() from the raw columns (features.py, embedder.py): a frame with a  *)
(* sex and a misc column, a colspec naming one or both, and the Bloom       *)
(* indices of every row.                                                    *)

MaxRows == 2

\* A missing value (NaN / None) of a column; no sample value is this string.
NaN == "NaN"

SexValues == {NaN, "m", "F"}

MiscValues == {NaN, "a"}

Colspecs == { {"sex"}, {"misc"}, {"sex", "misc"} }

\* str.casefold() and str[0] on the sample values.
Casefold(v) == IF v = "F" THEN "f" ELSE v

\* gen_sex_features, one row: ["sex<c>"], and [""] for a missing value
\* (fillna("") comes before the value is wrapped in a list).
gen_sex_features(sex) ==
    IF sex = NaN THEN [list |-> TRUE, items |-> <<"">>]
    ELSE IF Casefold(sex) = "m" THEN [list |-> TRUE, items |-> <<"sex<m>">>]
    ELSE [list |-> TRUE, items |-> <<"sex<f>">>]

\* gen_misc_features, one row: ["misc<v>"], and the string "" for a missing
\* value (the list is replaced by "" on the rows equal to misc<no_data>).
gen_misc_features(field) ==
    IF field = NaN THEN [list |-> FALSE, items |-> <<>>]
    ELSE [list |-> TRUE, items |-> <<"misc<a>">>]

\* it.chain.from_iterable over the row's feature cells: the elements of a
\* list, the characters of a string.
ChainFromIterable(cells) == UNION { { c.items[n] : n \in 1..Len(c.items) } : c \in cells }

\* Lines 402-418 of embed(): the all_features cell of one row.
all_features(row, colspec) ==
    ChainFromIterable(
        { gen_sex_features(row.sex) : c \in colspec \cap {"sex"} }
        \cup { gen_misc_features(row.misc) : c \in colspec \cap {"misc"} })

RawFrames ==
    UNION { [1..n -> [sex : SexValues, misc : MiscValues]] : n \in 1..MaxRows }

InitFeatures ==
    /\ embedder \in { NewEmbedder(<<"sex", "misc">>, 8, 1, o, "") : o \in Offsets }
    /\ call \in { [df |-> df, colspec |-> cs, all_features |-> <<>>, done |-> FALSE] :
                    df \in RawFrames, cs \in Colspecs }
    /\ edf = [k \in Slots |-> None]
    /\ last = Call("Embedder", <<>>, "", None)
    /\ sim = None
    /\ pickled = None
    /\ trains = 0

EmbedColumns ==
    /\ ~call.done
    /\ LET features == [n \in 1..Len(call.df) |-> all_features(call.df[n], call.colspec)]
       IN  /\ call' = [call EXCEPT !.all_features = features, !.done = TRUE]
           /\ edf' = [edf EXCEPT ![1] = Some(embed(features, embedder, FALSE, FALSE))]
    /\ last' = Call("embed", <<1>>, "", None)
    /\ UNCHANGED <<embedder, pickled, trains, sim>>

NextFeatures == EmbedColumns

SpecFeatures == InitFeatures /\ [][NextFeatures]_vars

\* The tokens of the values a row does have.
PresentTokens(row, colspec) ==
    { IF Casefold(row.sex) = "m" THEN "sex<m>" ELSE "sex<f>" :
        c \in { c \in colspec \cap {"sex"} : row.sex # NaN } }
    \cup { "misc<a>" : c \in { c \in colspec \cap {"misc"} : row.misc # NaN } }

\* C14: a row whose sex or misc value is missing gets no token from that
\* column in all_features and no Bloom index from it in bf_indices.
C14_MissingValueAddsNothing ==
    call.done
    => \A n \in 1..Len(call.df) :
         /\ call.all_features[n] = PresentTokens(call.df[n], call.colspec)
         /\ The(edf[1]).bf_indices[n] =
              bloom_filter_vector(PresentTokens(call.df[n], call.colspec), embedder)

-----------------------------------------------------------------------------
(* Two Embedder objects and two tables (embedder.py): either embedder       *)
(* embeds, either compares.  No embedder is trained here, so two embedders  *)
(* with one checksum have the same scm_matrix, bf_size and offset, which is *)
(* all that compare() reads through edf.embedder.                           *)

TwoSlots == {1, 2}

CompareFrames == { <<{"bo", "ob"}, {"ro"}>>, <<{"bo"}>> }

EmbedderPairs ==
    { <<NewEmbedder(<<"name">>, 3, 1, o1, ""), NewEmbedder(ff, 3, 1, o2, "")>> :
        o1 \in Offsets, o2 \in Offsets, ff \in {<<"name">>, <<"name", "sex">>} }

InitCompare ==
    /\ embedder \in EmbedderPairs
    /\ edf = [k \in TwoSlots |-> None]
    /\ last = Call("Embedder", <<>>, "", None)
    /\ sim = None
    /\ pickled = None
    /\ trains = 0
    /\ call = None

EmbedBy(i, k, df, do_thresholds) ==
    /\ edf' = [edf EXCEPT ![k] = Some(embed(df, embedder[i], TRUE, do_thresholds))]
    /\ last' = Call("embed", <<i, k>>, "", None)
    /\ UNCHANGED <<embedder, pickled, trains, sim, call>>

CompareBy(i, k1, k2, require_thresholds) ==
    /\ edf[k1] # None /\ edf[k2] # None
    /\ LET r == compare(edf, k1, k2, embedder[i], require_thresholds)
       IN  /\ edf' = r.d
           /\ last' = Call("compare", <<i, k1, k2, require_thresholds>>, r.err, r.out)
    /\ UNCHANGED <<embedder, pickled, trains, sim, call>>

NextCompare ==
    \/ \E i \in {1, 2}, k \in TwoSlots, df \in CompareFrames, do_thresholds \in BOOLEAN :
         EmbedBy(i, k, df, do_thresholds)
    \/ \E i \in {1, 2}, k1 \in TwoSlots, k2 \in TwoSlots, require_thresholds \in BOOLEAN :
         CompareBy(i, k1, k2, require_thresholds)

SpecCompare == InitCompare /\ [][NextCompare]_vars

-----------------------------------------------------------------------------
(* Claims about compare().                                                  *)

Compared == last.op = "compare"

ComparedBy == embedder[last.args[1]]

Compared1 == The(edf[last.args[2]])

Compared2 == The(edf[last.args[3]])

\* C15: compare fails and returns no array whenever the checksum cached in
\* either table differs from the comparing embedder's, whatever
\* require_thresholds is and whether or not thresholds are present.
C15_CompareRejectsForeignTable ==
    (/\ Compared
     /\ \/ Compared1.embedder_checksum # ComparedBy.checksum
        \/ Compared2.embedder_checksum # ComparedBy.checksum)
    => (last.err = "AssertionError" /\ last.out = None)

\* The first table is the embedder's own, the second is not; both have
\* thresholds and none is required.
C15_Witness ==
    /\ Compared
    /\ Compared1.embedder_checksum = ComparedBy.checksum
    /\ Compared2.embedder_checksum # ComparedBy.checksum
    /\ Compared1.thresholds # None /\ Compared2.thresholds # None
    /\ last.args[4] = FALSE
    /\ last.err = "AssertionError"

\* C16: when both tables have thresholds the returned array carries the
\* pair (T1.thresholds, T2.thresholds); otherwise compare fails and returns
\* nothing if require_thresholds is true, and returns an array without
\* thresholds if it is false.  (The tables are the embedder's own: C15.)
C16_CompareThresholds ==
    (/\ Compared
     /\ Compared1.embedder_checksum = ComparedBy.checksum
     /\ Compared2.embedder_checksum = ComparedBy.checksum)
    => IF Compared1.thresholds # None /\ Compared2.thresholds # None
       THEN /\ last.err = ""
            /\ The(last.out).thresholds =
                 Some(<<The(Compared1.thresholds), The(Compared2.thresholds)>>)
       ELSE IF last.args[4]
       THEN last.err = "ValueError" /\ last.out = None
       ELSE last.err = "" /\ The(last.out).thresholds = None

\* Two different tables, both with thresholds.
C16_Witness ==
    /\ Compared
    /\ last.args[2] # last.args[3]
    /\ Compared1.bf_indices # Compared2.bf_indices
    /\ Compared1.thresholds # None /\ Compared2.thresholds # None
    /\ last.err = "" /\ The(last.out).thresholds # None

-----------------------------------------------------------------------------
(* Claims about match() on an array without thresholds.                     *)

\* C17: match() with require_thresholds = true on an array that carries no
\* threshold pair fails and returns no matching, whatever abs_cutoff,
\* rel_cutoff and hungarian are.
C17_MatchRequiresThresholds ==
    (last.op = "match" /\ last.args.require_thresholds /\ sim.thresholds = None)
    => (last.err = "ValueError" /\ last.out = None)

\* A call of the assignment variant on an array of two rows.
C17_Witness ==
    /\ last.op = "match"
    /\ last.args.require_thresholds /\ last.args.hungarian
    /\ sim.thresholds = None
    /\ NRows(sim.S) = 2
    /\ last.err = "ValueError"

-----------------------------------------------------------------------------
(* update_thresholds on the array compare(self, self) returns               *)
(* (embedder.py:129-131).  The array is square and symmetric, and no score  *)
(* exceeds the diagonal's: the scores are levels 0..3, 3 being a row's      *)
(* similarity to itself.                                                    *)

MaxSelf == 3

\* -np.Inf: below every score.
NegInf == -1

SelfLevel == 3

SelfSimilarities ==
    UNION { LET above == { p \in (0..(n - 1)) \X (0..(n - 1)) : p[1] < p[2] }
            IN  { [i \in 0..(n - 1) |->
                     [j \in 0..(n - 1) |->
                        IF i = j THEN SelfLevel
                        ELSE IF i < j THEN u[<<i, j>>] ELSE u[<<j, i>>]]] :
                  u \in [above -> 0..SelfLevel] }
          : n \in 1..MaxSelf }

\* A variant of fill_diagonal that leaves the array as it is.
FillNothing(S, v) == S

\* np.fill_diagonal(similarities, v).
fill_diagonal(S, v) ==
    [i \in DOMAIN S |-> [j \in DOMAIN S[i] |-> IF i = j THEN v ELSE S[i][j]]]

\* np.max(similarities, 1): the largest entry of every row.
RowMax(S) ==
    [i \in DOMAIN S |->
       CHOOSE m \in { S[i][j] : j \in DOMAIN S[i] } : \A j \in DOMAIN S[i] : S[i][j] <= m]

\* Lines 129-131: the thresholds column for similarities = compare(self, self).
ThresholdColumn(similarities) == RowMax(fill_diagonal(similarities, NegInf))

InitThresholds ==
    /\ sim \in { [S |-> S, thresholds |-> None] : S \in SelfSimilarities }
    /\ call = [thresholds |-> None, done |-> FALSE]
    /\ last = Call("compare", <<>>, "", None)
    /\ embedder = None
    /\ edf = <<>>
    /\ pickled = None
    /\ trains = 0

SetThresholds ==
    /\ ~call.done
    /\ call' = [thresholds |-> Some(ThresholdColumn(sim.S)), done |-> TRUE]
    /\ last' = Call("update_thresholds", <<>>, "", None)
    /\ UNCHANGED <<embedder, edf, pickled, trains, sim>>

NextThresholds == SetThresholds

SpecThresholds == InitThresholds /\ [][NextThresholds]_vars

\* C18: after update_thresholds every row's threshold is the largest
\* similarity of the row to another row, and minus infinity when the table
\* has no other row.
C18_ThresholdIsBestOtherRow ==
    call.done
    => \A i \in DOMAIN sim.S :
         LET others == { sim.S[i][j] : j \in (DOMAIN sim.S) \ {i} }
         IN  IF others = {}
             THEN The(call.thresholds)[i] = NegInf
             ELSE /\ The(call.thresholds)[i] \in others
                  /\ \A v \in others : v <= The(call.thresholds)[i]

\* Three rows, one of them with a best other row below its own level and
\* above the lowest.
C18_Witness ==
    /\ call.done
    /\ Cardinality(DOMAIN sim.S) = 3
    /\ The(call.thresholds)[0] = 2
    /\ The(call.thresholds)[2] = 1

-----------------------------------------------------------------------------
(* Repeated train() calls of one Embedder (embedder.py), each on either     *)
(* table as edf1 and the second table as edf2.  The calls that got past the *)
(* assertions are kept, in order, in call.history; call.before is the       *)
(* Embedder as the last call found it.                                      *)

\* The two tables: two frames of two rows, or a frame of one row and a
\* frame of two.
TrainFrames ==
    { << <<{"bo", "ob"}, {"ro"}>>, <<{"ro", "ob"}, {}>> >>,
      << <<{"bo"}>>, <<{"bo", "ob"}, {"ro"}>> >> }

\* (learning_rate, eps) in hundredths: two pairs train() accepts and the
\* three ways of being rejected.
TrainParameters == { <<50, 1>>, <<100, 1>>, <<0, 1>>, <<150, 1>>, <<100, -1>> }

InitTrain ==
    /\ embedder = NewEmbedder(<<"name">>, 3, 1, 0, "")
    /\ edf \in { [k \in TwoSlots |-> Some(embed(dfs[k], embedder, TRUE, FALSE))] :
                   dfs \in TrainFrames }
    /\ call = [history |-> <<>>, before |-> embedder]
    /\ last = Call("embed", <<>>, "", None)
    /\ trains = 0
    /\ sim = None
    /\ pickled = None

TrainOn(k1, k2, update, learning_rate, eps) ==
    /\ trains < MaxTrain
    /\ LET x == The(edf[k1]).bf_indices
           y == The(edf[k2]).bf_indices
       IN  \E perm \in Permutations(1..Len(y)) :
             LET y_jumbled == [n \in 1..Len(y) |-> y[perm[n]]]
                 r == train(embedder, x, y, y_jumbled, update, learning_rate, eps)
                 args == [x |-> x, y |-> y, y_jumbled |-> y_jumbled, update |-> update,
                          learning_rate |-> learning_rate, eps |-> eps]
             IN  /\ embedder' = r.e
                 /\ trains' = IF r.err = "AssertionError" THEN trains ELSE trains + 1
                 /\ call' = [history |-> IF r.err = "AssertionError"
                                         THEN call.history
                                         ELSE Append(call.history, args),
                             before |-> embedder]
                 /\ last' = Call("train", args, r.err, None)
    /\ UNCHANGED <<edf, pickled, sim>>

NextTrain ==
    \E k1 \in TwoSlots, update \in BOOLEAN, p \in TrainParameters :
       TrainOn(k1, 2, update, p[1], p[2])

SpecTrain == InitTrain /\ [][NextTrain]_vars

-----------------------------------------------------------------------------
(* Claims about train().                                                    *)

\* The first of the calls that count: the last one with update = false, or
\* the first call when every call had update = true.
FirstCounted(h) ==
    LET fresh == { n \in 1..Len(h) : ~h[n].update }
    IN  IF fresh = {} THEN 1 ELSE CHOOSE n \in fresh : \A m \in fresh : m <= n

\* I + the sum of learning_rate * J over the calls that count, J taken on y
\* or on the shuffled y.
Accumulated(h, dim, jumbled) ==
    [p \in Cells(dim) |->
       initmatrix(dim)[p]
       + SumOver([n \in FirstCounted(h)..Len(h) |->
                    h[n].learning_rate
                    * joint_freq_matrix(h[n].x,
                                        IF jumbled THEN h[n].y_jumbled ELSE h[n].y,
                                        dim)[p]],
                 FirstCounted(h)..Len(h))]

\* C19: with update = true every call adds learning_rate * J(x, y) to
\* F_match and learning_rate * J(x, y') to F_unmatch, so k such calls on a
\* fresh Embedder leave I plus the k terms; a call with update = false
\* leaves I plus its own term whatever came before.
C19_FrequenciesAccumulate ==
    call.history # <<>>
    => /\ embedder.freq_matr_matched = Accumulated(call.history, Dim(embedder), FALSE)
       /\ embedder.freq_matr_unmatched = Accumulated(call.history, Dim(embedder), TRUE)

\* Two calls with update = true on a fresh Embedder, with different tables
\* and rates.
C19_Witness ==
    /\ Len(call.history) = 2
    /\ call.history[1].update /\ call.history[2].update
    /\ call.history[1].learning_rate # call.history[2].learning_rate
    /\ call.history[1].x # call.history[2].x
    /\ call.history[2].y # call.history[2].y_jumbled
    /\ last.err = ""

\* C20: train() fails when the tables differ in length, when eps < 0 and
\* when learning_rate is outside (0, 1], and such a call leaves F_match,
\* F_unmatch, A and the checksum as it found them.
C20_RejectedTrainChangesNothing ==
    (/\ last.op = "train"
     /\ \/ Len(last.args.x) # Len(last.args.y)
        \/ last.args.eps < 0
        \/ ~(last.args.learning_rate > 0 /\ last.args.learning_rate <= 100))
    => /\ last.err = "AssertionError"
       /\ embedder.freq_matr_matched = call.before.freq_matr_matched
       /\ embedder.freq_matr_unmatched = call.before.freq_matr_unmatched
       /\ embedder.scm_matrix = call.before.scm_matrix
       /\ embedder.checksum = call.before.checksum

\* A call with a learning_rate above 1 on an Embedder that was trained
\* before, on tables train() accepts.
C20_Witness ==
    /\ last.op = "train"
    /\ last.err = "AssertionError"
    /\ last.args.learning_rate > 100
    /\ last.args.update
    /\ Len(last.args.x) = Len(last.args.y)
    /\ Len(call.history) = 1
    /\ embedder.freq_matr_matched # initmatrix(Dim(embedder))

-----------------------------------------------------------------------------
(* Every operation next to train(): one Embedder, its tables, its pickle    *)
(* and a SimilarityArray that match() is called on (embedder.py).           *)

\* (learning_rate, eps) in hundredths: a pair train() accepts and one it
\* rejects.
FrameParameters == { <<100, 1>>, <<150, 1>> }

\* The arrays match() is called on: one with thresholds and one without.
FrameArrays ==
    { [S |-> [i \in {0} |-> [j \in {0, 1} |-> j + 1]],
       thresholds |-> Some(<<[i \in {0} |-> 1], [j \in {0, 1} |-> j]>>)],
      [S |-> [i \in {0} |-> [j \in {0, 1} |-> j + 1]], thresholds |-> None] }

InitFrame ==
    /\ embedder = NewEmbedder(<<"name">>, 3, 1, 0, "")
    /\ edf = [k \in Slots |-> None]
    /\ pickled = None
    /\ trains = 0
    /\ last = Call("Embedder", <<>>, "", None)
    /\ sim \in FrameArrays
    /\ call = None

\* SimilarityArray.match on the array in scope.
MatchArray(abs_cutoff, rel_cutoff, hungarian, require_thresholds) ==
    /\ \E r \in match(sim, abs_cutoff, rel_cutoff, hungarian, require_thresholds) :
         last' = Call("match",
                      [abs_cutoff |-> abs_cutoff, rel_cutoff |-> rel_cutoff,
                       hungarian |-> hungarian,
                       require_thresholds |-> require_thresholds],
                      r.err, r.out)
    /\ UNCHANGED <<embedder, edf, pickled, trains, sim, call>>

NextFrame ==
    \/ \E k \in DOMAIN edf, df \in CompareFrames, t \in BOOLEAN : Embed(k, df, FALSE, t)
    \/ \E k \in DOMAIN edf : UpdateNorms(k)
    \/ \E k \in DOMAIN edf : UpdateThresholds(k)
    \/ \E k \in DOMAIN edf : ToBloomMatrix(k)
    \/ \E k1 \in DOMAIN edf, k2 \in DOMAIN edf, r \in BOOLEAN : Compare(k1, k2, r)
    \/ \E k1 \in DOMAIN edf, k2 \in DOMAIN edf, u \in BOOLEAN, p \in FrameParameters :
         Train(k1, k2, u, p[1], p[2])
    \/ ToPickle
    \/ \E t \in BOOLEAN : MatchArray(1, 0, TRUE, t)

SpecFrame == InitFrame /\ [][NextFrame]_vars

\* The operations of the Embedder, its tables and its arrays other than
\* train().
ReadingOps ==
    {"embed", "compare", "update_norms", "update_thresholds", "to_bloom_matrix",
     "match", "to_pickle"}

\* C21: a step of embed, compare, update_norms, update_thresholds,
\* to_bloom_matrix, match or to_pickle leaves every attribute of the
\* Embedder (bf_size, num_hashes, offset, salt, feature_factory, ff_args,
\* scm_matrix, freq_matr_matched, freq_matr_unmatched, checksum) as it was.
C21_OnlyTrainChangesEmbedder ==
    [][last'.op \in ReadingOps => embedder' = embedder]_vars

\* A table operation that succeeded on a trained Embedder, whose stored
\* checksum is no longer the digest of its attributes.
C21_Witness ==
    /\ last.op = "update_norms"
    /\ last.err = ""
    /\ trains > 0
    /\ embedder.scm_matrix.form = "nearest_psd"
    /\ embedder.checksum # compute_checksum(embedder)

-----------------------------------------------------------------------------
(* Two Embedder objects that may differ in salt, in ff_args and in offset   *)
(* (embedder.py): either embeds, either compares.  call.by keeps, for every *)
(* table, the embedder that embedded it.                                    *)

\* The keyword arguments of the feature functions, by column type.
FfArgs == { <<>>, << <<"name", "ngram_length", 2>> >> }

SaltValues == {"", "s"}

\* Embedder.__init__ with ff_args given.
EmbedderWith(feature_factory, ff_args, bf_size, num_hashes, offset, salt) ==
    LET e0 == [NewEmbedder(feature_factory, bf_size, num_hashes, offset, salt)
                 EXCEPT !.ff_args = ff_args]
    IN  [e0 EXCEPT !.checksum = compute_checksum(e0)]

SaltedPairs ==
    { <<EmbedderWith(<<"name">>, <<>>, 3, 1, 0, ""),
        EmbedderWith(<<"name">>, a, 3, 1, o, s)>> :
        a \in FfArgs, o \in Offsets, s \in SaltValues }

InitSalt ==
    /\ embedder \in SaltedPairs
    /\ edf = [k \in TwoSlots |-> None]
    /\ call = [by |-> [k \in TwoSlots |-> 0]]
    /\ last = Call("Embedder", <<>>, "", None)
    /\ sim = None
    /\ pickled = None
    /\ trains = 0

EmbedUnder(i, k, df, do_thresholds) ==
    /\ edf' = [edf EXCEPT ![k] = Some(embed(df, embedder[i], TRUE, do_thresholds))]
    /\ call' = [call EXCEPT !.by[k] = i]
    /\ last' = Call("embed", <<i, k>>, "", None)
    /\ UNCHANGED <<embedder, pickled, trains, sim>>

NextSalt ==
    \/ \E i \in {1, 2}, k \in TwoSlots, df \in CompareFrames, do_thresholds \in BOOLEAN :
         EmbedUnder(i, k, df, do_thresholds)
    \/ \E i \in {1, 2}, k1 \in TwoSlots, k2 \in TwoSlots, require_thresholds \in BOOLEAN :
         CompareBy(i, k1, k2, require_thresholds)

SpecSalt == InitSalt /\ [][NextSalt]_vars

\* Two embedders agree on the feature-factory entries, A, size, num_hashes
\* and offset.
AgreeOnDigested(e1, e2) ==
    /\ e1.feature_factory = e2.feature_factory
    /\ e1.scm_matrix = e2.scm_matrix
    /\ e1.bf_size = e2.bf_size
    /\ e1.num_hashes = e2.num_hashes
    /\ e1.offset = e2.offset

\* The embedders that embedded the two tables of the last compare.
EmbeddedBy1 == embedder[call.by[last.args[2]]]

EmbeddedBy2 == embedder[call.by[last.args[3]]]

\* C22: two Embedders that agree on the feature-factory entries, A, size,
\* num_hashes and offset have equal checksums whatever their salt and
\* ff_args, and compare() by one of them raises no checksum error on tables
\* embedded by the other.
C22_ChecksumIgnoresSaltAndArgs ==
    /\ AgreeOnDigested(embedder[1], embedder[2])
         => embedder[1].checksum = embedder[2].checksum
    /\ (/\ Compared
        /\ AgreeOnDigested(ComparedBy, EmbeddedBy1)
        /\ AgreeOnDigested(ComparedBy, EmbeddedBy2))
       => last.err # "AssertionError"

\* The unsalted embedder compares its own table with one embedded under a
\* salt and other feature options, whose indices differ, and returns an
\* array.
C22_Witness ==
    /\ Compared
    /\ last.args[1] = 1
    /\ call.by[last.args[2]] = 1 /\ call.by[last.args[3]] = 2
    /\ embedder[2].salt # embedder[1].salt
    /\ embedder[2].ff_args # embedder[1].ff_args
    /\ \E n \in 1..Len(Compared1.bf_indices) :
         Compared1.bf_indices[n] \notin
           { Compared2.bf_indices[m] : m \in 1..Len(Compared2.bf_indices) }
    /\ last.err = "" /\ last.out # None

-----------------------------------------------------------------------------
(* The eigenvalue clamp of train() (embedder.py:592-598, 689-693).  The     *)
(* matrix A is eigvec diag(eigval') eigvec.T, where eigval' is eigval of    *)
(* C = (X + X.T) / 2 with the entries below 0, and only those, set to the   *)
(* clamp value.                                                             *)

\* A cell of C is 0: the two logarithms it averages cancel.
LogZero(cell) == cell[1][1] * cell[2][1] = cell[1][2] * cell[2][2]

\* The indices i whose row of C is 0.  The unit vector e_i is then an
\* eigenvector of C with eigenvalue 0, which eigval[eigval < 0] = eps leaves
\* at 0: A e_i = 0.  The identity matrix of an untrained Embedder has none.
NullIndices(scm, dim) ==
    IF scm.form = "exact"
    THEN {}
    ELSE { i \in 0..(dim - 1) : \A j \in 0..(dim - 1) : LogZero(scm.of[<<i, j>>]) }

\* C23: after every successful train() the minimum eigenvalue of A is at
\* least the clamp value 1e-6, so that A is strictly positive definite and
\* no unit vector e_i has A e_i = 0.
C23_TrainedMatrixPositiveDefinite ==
    (last.op = "train" /\ last.err = "")
    => NullIndices(embedder.scm_matrix, Dim(embedder)) = {}

-----------------------------------------------------------------------------
(* The radicand of _calculate_norm (embedder.py:135-137) on a concrete      *)
(* matrix: np.sum(scm_matrix[np.ix_(bf_indices, bf_indices)]).  A matrix is *)
(* a function of the row index and the column index, counted from 0.        *)

MaxDim == 2

MatrixEntries == {-1, 0, 1}

SquareMatrices(dims) ==
    UNION { [0..(n - 1) -> [0..(n - 1) -> MatrixEntries]] : n \in dims }

\* The lists of pairwise distinct indices into a matrix of n rows.
IndexLists(n) ==
    { I \in UNION { [1..k -> 0..(n - 1)] : k \in 0..n } :
        \A a \in DOMAIN I, b \in DOMAIN I : a # b => I[a] # I[b] }

\* A variant of SparseRadicand that sums the diagonal of the grid only.
SparseRadicandDiagonal(A, bf_indices) ==
    SumOver([a \in DOMAIN bf_indices |-> A[bf_indices[a]][bf_indices[a]]],
            DOMAIN bf_indices)

\* np.sum(A[np.ix_(bf_indices, bf_indices)]): the grid has one cell for
\* every pair of positions of the list.
SparseRadicand(A, bf_indices) ==
    SumOver([p \in (DOMAIN bf_indices) \X (DOMAIN bf_indices) |->
               A[bf_indices[p[1]]][bf_indices[p[2]]]],
            (DOMAIN bf_indices) \X (DOMAIN bf_indices))

\* x = zeros(len(A)); x[bf_indices] = 1.
IndicatorVector(A, bf_indices) ==
    [i \in DOMAIN A |-> IF \E a \in DOMAIN bf_indices : bf_indices[a] = i THEN 1 ELSE 0]

\* x.T @ A @ x.
QuadraticForm(A, x) ==
    SumOver([i \in DOMAIN A |->
               x[i] * SumOver([j \in DOMAIN A |-> A[i][j] * x[j]], DOMAIN A)],
            DOMAIN A)

InitNorm ==
    /\ call \in { [scm_matrix |-> A, bf_indices |-> I, done |-> FALSE] :
                    A \in SquareMatrices(1..MaxDim), I \in IndexLists(MaxDim) }
    /\ \A a \in DOMAIN call.bf_indices : call.bf_indices[a] \in DOMAIN call.scm_matrix
    /\ last = Call("EmbeddedDataFrame", <<>>, "", None)
    /\ embedder = None
    /\ edf = <<>>
    /\ sim = None
    /\ pickled = None
    /\ trains = 0

CalculateNorm ==
    /\ ~call.done
    /\ call' = [call EXCEPT !.done = TRUE]
    /\ last' = Call("_calculate_norm", <<>>, "",
                    Some(SparseRadicand(call.scm_matrix, call.bf_indices)))
    /\ UNCHANGED <<embedder, edf, pickled, trains, sim>>

NextNorm == CalculateNorm

SpecNorm == InitNorm /\ [][NextNorm]_vars

\* The determinant of the rows and columns of A listed in rows and cols,
\* expanded along the first listed row.
RECURSIVE Det(_, _, _)
Det(A, rows, cols) ==
    IF rows = <<>> THEN 1
    ELSE SumOver([k \in DOMAIN cols |->
                    (IF k % 2 = 1 THEN 1 ELSE -1) * A[rows[1]][cols[k]]
                    * Det(A, Tail(rows), SubSeq(cols, 1, k - 1) \o SubSeq(cols, k + 1, Len(cols)))],
                 DOMAIN cols)

\* The elements of a set of numbers in increasing order.
RECURSIVE Sorted(_)
Sorted(S) ==
    IF S = {} THEN <<>>
    ELSE LET m == CHOOSE x \in S : \A y \in S : x <= y IN <<m>> \o Sorted(S \ {m})

\* A is symmetric and every principal minor of A is at least 0.
PositiveSemiDefinite(A) ==
    /\ \A i \in DOMAIN A, j \in DOMAIN A : A[i][j] = A[j][i]
    /\ \A S \in SUBSET (DOMAIN A) : Det(A, Sorted(S), Sorted(S)) >= 0

\* C24: for every square matrix A and every list of pairwise distinct
\* indices, the sum of A over the grid of the list equals x.T A x for the
\* indicator vector x of the list, and for positive semi-definite A it is
\* at least 0.
C24_SparseSumIsQuadraticForm ==
    call.done
    => /\ The(last.out) =
            QuadraticForm(call.scm_matrix,
                          IndicatorVector(call.scm_matrix, call.bf_indices))
       /\ PositiveSemiDefinite(call.scm_matrix) => The(last.out) >= 0

\* A positive semi-definite matrix with a negative entry and the list of
\* both its indices, the larger first.
C24_Witness ==
    /\ call.done
    /\ PositiveSemiDefinite(call.scm_matrix)
    /\ call.bf_indices = <<1, 0>>
    /\ call.scm_matrix[0][1] < 0
    /\ The(last.out) = 0

-----------------------------------------------------------------------------
(* Claims about update_norms (embedder.py:139-154).                         *)

\* The columns of a table that the EmbeddedDataFrame methods write.
ColumnsOf(t) ==
    {"bf_indices"}
    \cup (IF t.bf_norms # None THEN {"bf_norms"} ELSE {})
    \cup (IF t.thresholds # None THEN {"thresholds"} ELSE {})

\* C25: a successful update_norms(T) leaves T with the columns it had and
\* bf_norms, every other column as it was; called again right after a
\* successful update_norms(T), it leaves the column list and every bf_norms
\* value the same.
C25_UpdateNormsIdempotent ==
    [][(last'.op = "update_norms" /\ last'.err = "")
       => LET k == last'.args[1]
              before == The(edf[k])
              after == The(edf'[k])
          IN  /\ ColumnsOf(after) = ColumnsOf(before) \cup {"bf_norms"}
              /\ after.bf_indices = before.bf_indices
              /\ after.thresholds = before.thresholds
              /\ Len(The(after.bf_norms)) = Len(after.bf_indices)
              /\ (last.op = "update_norms" /\ last.err = "" /\ last.args = last'.args)
                 => after = before]_vars

\* update_norms succeeded on a table that has thresholds, after training.
C25_Witness ==
    /\ last.op = "update_norms"
    /\ last.err = ""
    /\ The(edf[last.args[1]]).thresholds # None
    /\ Len(The(edf[last.args[1]]).bf_indices) = 2
    /\ The(edf[last.args[1]]).bf_norms[1][1].scm = embedder.scm_matrix
    /\ trains > 0

-----------------------------------------------------------------------------
(* embed() on the columns of a frame (embedder.py:400-431).  A frame is a   *)
(* function from its column names to its columns; the frames handed to      *)
(* embed() here have an id, a sex and a misc column, and none named like a  *)
(* column that embed() makes.                                               *)

\* colspec: the columns to embed, each with its column type.
ColspecMaps == { [c \in S |-> c] : S \in SUBSET {"sex", "misc"} }

\* The frame of the given rows, by column.
ColumnFrame(rows) ==
    [c \in {"id", "sex", "misc"} |->
       [n \in 1..Len(rows) |-> IF c = "id" THEN "x" ELSE rows[n][c]]]

\* self.feature_factory[column_type](df_features[column]).
FeatureColumn(column_type, column) ==
    [n \in DOMAIN column |->
       IF column_type = "sex" THEN gen_sex_features(column[n])
       ELSE gen_misc_features(column[n])]

\* df[name] = column on a frame: a new column, or new values of an old one.
SetColumn(df, name, column) ==
    [c \in (DOMAIN df) \cup {name} |-> IF c = name THEN column ELSE df[c]]

\* pd.concat([df, df_features], axis=1) on frames of the same rows.
Concat(df, df_features) ==
    [c \in (DOMAIN df) \cup (DOMAIN df_features) |->
       IF c \in DOMAIN df THEN df[c] ELSE df_features[c]]

\* A variant of EmbedFrame that returns the colspec columns of the frame
\* only, without the columns that colspec does not name.
EmbedFrameOfColspec(df, colspec, e, do_norms, do_thresholds) ==
    LET rows == 1..Len(df["id"])
        df_features == [c \in DOMAIN colspec |-> FeatureColumn(colspec[c], df[c])]
        renamed == [f \in { c \o "_features" : c \in DOMAIN colspec } |->
                      df_features[CHOOSE c \in DOMAIN colspec : c \o "_features" = f]]
        all == [n \in rows |->
                  ChainFromIterable({ df_features[c][n] : c \in DOMAIN colspec })]
        joined == Concat([c \in DOMAIN colspec |-> df[c]],
                         SetColumn(renamed, "all_features", all))
        indexed == SetColumn(joined, "bf_indices",
                             [n \in rows |-> bloom_filter_vector(all[n], e)])
        t == NewEDF(indexed["bf_indices"], e, do_norms, do_thresholds)
        normed == IF t.bf_norms # None
                  THEN SetColumn(indexed, "bf_norms", The(t.bf_norms)) ELSE indexed
    IN  [df |-> df,
         out |-> IF t.thresholds # None
                 THEN SetColumn(normed, "thresholds", The(t.thresholds)) ELSE normed]

\* Embedder.embed(df, colspec, update_norms, update_thresholds): the caller's
\* frame after the call and the table returned.
EmbedFrame(df, colspec, e, do_norms, do_thresholds) ==
    LET rows == 1..Len(df["id"])
        \* df[colspec.keys()].copy(), then the features of every column
        df_features == [c \in DOMAIN colspec |-> FeatureColumn(colspec[c], df[c])]
        \* df_features.columns = [i + "_features" ...]
        renamed == [f \in { c \o "_features" : c \in DOMAIN colspec } |->
                      df_features[CHOOSE c \in DOMAIN colspec : c \o "_features" = f]]
        all == [n \in rows |->
                  ChainFromIterable({ df_features[c][n] : c \in DOMAIN colspec })]
        joined == Concat(df, SetColumn(renamed, "all_features", all))
        indexed == SetColumn(joined, "bf_indices",
                             [n \in rows |-> bloom_filter_vector(all[n], e)])
        \* EmbeddedDataFrame(df, embedder=self, update_norms, update_thresholds)
        t == NewEDF(indexed["bf_indices"], e, do_norms, do_thresholds)
        normed == IF t.bf_norms # None
                  THEN SetColumn(indexed, "bf_norms", The(t.bf_norms)) ELSE indexed
    IN  [df |-> df,
         out |-> IF t.thresholds # None
                 THEN SetColumn(normed, "thresholds", The(t.thresholds)) ELSE normed]

InitColumns ==
    /\ embedder = NewEmbedder(<<"sex", "misc">>, 8, 1, 0, "")
    /\ call \in { [df |-> ColumnFrame(rows), colspec |-> cs,
                   update_norms |-> n, update_thresholds |-> t,
                   df_after |-> None, out |-> None, done |-> FALSE] :
                    rows \in RawFrames, cs \in ColspecMaps, n \in BOOLEAN, t \in BOOLEAN }
    /\ edf = [k \in Slots |-> None]
    /\ last = Call("Embedder", <<>>, "", None)
    /\ sim = None
    /\ pickled = None
    /\ trains = 0

EmbedDataFrame ==
    /\ ~call.done
    /\ LET r == EmbedFrame(call.df, call.colspec, embedder,
                           call.update_norms, call.update_thresholds)
       IN  call' = [call EXCEPT !.df_after = Some(r.df), !.out = Some(r.out), !.done = TRUE]
    /\ last' = Call("embed", <<>>, "", None)
    /\ UNCHANGED <<embedder, edf, pickled, trains, sim>>

NextColumns == EmbedDataFrame

SpecColumns == InitColumns /\ [][NextColumns]_vars

-----------------------------------------------------------------------------
(* Claims about the collision fraction (bloom_filters.py:45-67).            *)

\* C27: for every token list (and every encoder with size >= 2 and
\* num_hashes >= 1) bloom_filter_vector_collision_fraction returns the
\* fraction 1 - |deduped| / |raw|, where raw has one index for every token
\* of the list and every hash number, and the fraction is in [0, 1].
C27_CollisionFractionDefined ==
    (/\ call.done
     /\ call.op = "bloom_filter_vector_collision_fraction"
     /\ call.enc.bf_size >= 2 /\ call.enc.num_hashes >= 1)
    => /\ call.err = ""
       /\ call.fraction # None
       /\ LET deduped == The(call.fraction)[1]
              raw == The(call.fraction)[2]
          IN  /\ raw = Len(call.feature) * call.enc.num_hashes
              /\ deduped = Cardinality(The(call.out))
              /\ raw > 0
              /\ 0 <= raw - deduped /\ raw - deduped <= raw

-----------------------------------------------------------------------------
(* gen_ngram (features.py:40-65).  A token is the sequence of its           *)
(* characters; the n-grams come in the order the generator yields them.     *)

MaxTokenLen == 3

Characters == {"_", "a"}

SplitTokens(len) == UNION { [1..k -> Characters] : k \in 0..len }

\* split_tokens: lists of one or two tokens.
TokenLists(len) ==
    { <<t>> : t \in SplitTokens(len) }
    \cup { <<t, u>> : t \in SplitTokens(len), u \in SplitTokens(len) }

\* ngram_length: the lengths asked for, in the order given.
NgramLengths == { <<1>>, <<2>>, <<3>>, <<1, 2>>, <<2, 3>>, <<3, 1>> }

\* The concatenation of a sequence of sequences.
RECURSIVE Flatten(_)
Flatten(ss) == IF ss = <<>> THEN <<>> ELSE Head(ss) \o Flatten(Tail(ss))

\* if ngram != "_": the n-grams of a sequence other than "_", in order.
RECURSIVE NotUnderscore(_)
NotUnderscore(ngrams) ==
    IF ngrams = <<>> THEN <<>>
    ELSE (IF Head(ngrams) # <<"_">> THEN <<Head(ngrams)>> ELSE <<>>)
         \o NotUnderscore(Tail(ngrams))

\* for i in range(chr_length - n + 1): token[i : i + n], unless it is "_".
NgramsOfToken(token, n) ==
    NotUnderscore([i \in 1..(IF Len(token) - n + 1 > 0 THEN Len(token) - n + 1 ELSE 0) |->
                     SubSeq(token, i, i + n - 1)])

\* gen_ngram(split_tokens, ngram_length): everything it yields, in order.
gen_ngram(split_tokens, ngram_length) ==
    Flatten([a \in DOMAIN ngram_length |->
               Flatten([b \in DOMAIN split_tokens |->
                          NgramsOfToken(split_tokens[b], ngram_length[a])])])

InitNgram ==
    /\ call \in { [split_tokens |-> ts, ngram_length |-> ls, out |-> None, done |-> FALSE] :
                    ts \in TokenLists(MaxTokenLen), ls \in NgramLengths }
    /\ last = Call("", <<>>, "", None)
    /\ embedder = None
    /\ edf = <<>>
    /\ sim = None
    /\ pickled = None
    /\ trains = 0

GenNgram ==
    /\ ~call.done
    /\ call' = [call EXCEPT !.out = Some(gen_ngram(call.split_tokens, call.ngram_length)),
                            !.done = TRUE]
    /\ last' = Call("gen_ngram", <<>>, "", None)
    /\ UNCHANGED <<embedder, edf, pickled, trains, sim>>

NextNgram == GenNgram

SpecNgram == InitNgram /\ [][NextNgram]_vars

\* The contiguous substrings of length n of a token.
Substrings(token, n) ==
    { SubSeq(token, i, i + n - 1) : i \in 1..(Len(token) - n + 1) }

OnlyUnderscores(ngram) == \A i \in DOMAIN ngram : ngram[i] = "_"

\* C28: gen_ngram yields, for every n of the lengths and every token, every
\* contiguous substring of length n of the token except the substrings made
\* up of "_" characters only, whatever their length, and nothing else; so
\* nothing for an n above the token's length.
C28_NgramsSkipUnderscores ==
    call.done
    => { The(call.out)[k] : k \in DOMAIN The(call.out) } =
         { g \in UNION { Substrings(call.split_tokens[b], call.ngram_length[a]) :
                           a \in DOMAIN call.ngram_length, b \in DOMAIN call.split_tokens } :
             ~OnlyUnderscores(g) }

-----------------------------------------------------------------------------
(* The norms compare() divides by (embedder.py:135-137, 481-484).           *)

\* The radicand of a norm is 0: the sum over np.ix_(idx, idx) is empty when
\* idx is, and x.T A x = 0 when A e_i = 0 for every index i of idx.
ZeroNorm(norm, dim) == norm.idx \subseteq NullIndices(norm.scm, dim)

\* C29: every bf_norms value of every table is strictly positive, under an
\* untrained Embedder and after any sequence of train() calls, for rows
\* with no Bloom index and rows whose indices never occurred in training
\* too; so compare() never divides by 0.
C29_NormsPositive ==
    \A k \in DOMAIN edf :
       (edf[k] # None /\ The(edf[k]).bf_norms # None)
       => \A n \in DOMAIN The(The(edf[k]).bf_norms) :
            ~ZeroNorm(The(The(edf[k]).bf_norms)[n], Dim(embedder))

-----------------------------------------------------------------------------
(* The production flow of the server (scripts/server.py main, cloud.py      *)
(* download_embedder, perform.py perform_matching).  Each party has put a   *)
(* pickled Embedder and its embedded data in its bucket; pickled holds the  *)
(* two embedder.pkl blobs, call the flow's position, the parties' data, the *)
(* error log and the parties whose results are uploaded.  match() and       *)
(* add_private_index are followed on their own above; here they are the    *)
(* step that turns the similarities into the two outputs.                   *)

Parties == TwoSlots

\* The embedders of the two parties: equal, or different in offset, feature
\* factory or size.
ServerPairs ==
    EmbedderPairs
    \cup { <<NewEmbedder(<<"name">>, 3, 1, 0, ""), NewEmbedder(<<"name">>, 4, 1, 1, "")>> }

\* A party's data as it embedded them with its own Embedder.
PartyData(df, e) == [bf_indices |-> [n \in 1..Len(df) |-> bloom_filter_vector(df[n], e)]]

\* A variant of download_embedder that raises when the checksums differ.
DownloadEmbedderStrict(blobs) ==
    LET r1 == from_pickle(Some(blobs[1]))
        r2 == from_pickle(Some(blobs[2]))
    IN  IF r1.err # "" THEN [err |-> r1.err, out |-> None, log |-> <<>>]
        ELSE IF r2.err # "" THEN [err |-> r2.err, out |-> None, log |-> <<>>]
        ELSE IF The(r1.out).checksum # The(r2.out).checksum
        THEN [err |-> "AssertionError", out |-> None, log |-> <<>>]
        ELSE [err |-> "", out |-> r1.out, log |-> <<>>]

\* download_embedder: from_pickle on the blob of each party in turn, an
\* error logged when the checksums differ, the first embedder returned.
download_embedder(blobs) ==
    LET r1 == from_pickle(Some(blobs[1]))
        r2 == from_pickle(Some(blobs[2]))
    IN  IF r1.err # "" THEN [err |-> r1.err, out |-> None, log |-> <<>>]
        ELSE IF r2.err # "" THEN [err |-> r2.err, out |-> None, log |-> <<>>]
        ELSE [err |-> "", out |-> r1.out,
              log |-> IF The(r1.out).checksum # The(r2.out).checksum
                      THEN <<"Embedders do not match.">> ELSE <<>>]

\* The indices of a table all address the matrix of the embedder; numpy
\* raises IndexError on one that does not.
IndicesFit(data, e) ==
    \A n \in DOMAIN data.bf_indices : data.bf_indices[n] \subseteq 0..(Dim(e) - 1)

\* perform_matching: both data frames wrapped with the embedder, norms and
\* thresholds computed, compared, matched and given a private index.
perform_matching(data_1, data_2, e) ==
    IF ~(IndicesFit(data_1, e) /\ IndicesFit(data_2, e))
    THEN [err |-> "IndexError", d |-> [k \in Parties |-> None], out |-> None]
    ELSE LET d == [k \in Parties |->
                     Some(NewEDF((IF k = 1 THEN data_1 ELSE data_2).bf_indices,
                                 e, TRUE, TRUE))]
             c == compare(d, 1, 2, e, TRUE)
         IN  IF c.err # ""
             THEN [err |-> c.err, d |-> c.d, out |-> None]
             ELSE [err |-> "", d |-> c.d,
                   out |-> Some([k \in Parties |->
                                   [bf_indices |-> (IF k = 1 THEN data_1 ELSE data_2).bf_indices,
                                    private_index |-> The(c.out).embedder_checksum]])]

InitServer ==
    /\ \E pair \in ServerPairs, df1 \in CompareFrames, df2 \in CompareFrames :
         /\ pickled = <<to_pickle(pair[1]), to_pickle(pair[2])>>
         /\ call = [pc |-> "download_embedder",
                    dfs |-> <<df1, df2>>,
                    data |-> <<PartyData(df1, pair[1]), PartyData(df2, pair[2])>>,
                    log |-> <<>>, outputs |-> None, uploaded |-> {}, err |-> ""]
    /\ embedder = None
    /\ edf = [k \in Parties |-> None]
    /\ last = Call("main", <<>>, "", None)
    /\ sim = None
    /\ trains = 0

DownloadEmbedder ==
    /\ call.pc = "download_embedder"
    /\ LET r == download_embedder(pickled)
       IN  /\ embedder' = IF r.err = "" THEN The(r.out) ELSE embedder
           /\ call' = [call EXCEPT !.log = call.log \o r.log,
                                   !.err = r.err,
                                   !.pc = IF r.err = "" THEN "prepare_party_assets"
                                          ELSE "raised"]
           /\ last' = Call("download_embedder", <<>>, r.err, r.out)
    /\ UNCHANGED <<edf, pickled, trains, sim>>

\* prepare_party_assets for both parties: the data frames are decrypted.
PreparePartyAssets ==
    /\ call.pc = "prepare_party_assets"
    /\ call' = [call EXCEPT !.pc = "perform_matching"]
    /\ last' = Call("prepare_party_assets", <<>>, "", None)
    /\ UNCHANGED <<embedder, edf, pickled, trains, sim>>

PerformMatching ==
    /\ call.pc = "perform_matching"
    /\ LET r == perform_matching(call.data[1], call.data[2], embedder)
       IN  /\ edf' = r.d
           /\ call' = [call EXCEPT !.outputs = r.out,
                                   !.err = r.err,
                                   !.pc = IF r.err = "" THEN "upload_party_results"
                                          ELSE "raised"]
           /\ last' = Call("perform_matching", <<>>, r.err, r.out)
    /\ UNCHANGED <<embedder, pickled, trains, sim>>

\* The loop over the parties: the next party's output is uploaded.
UploadPartyResults ==
    /\ call.pc = "upload_party_results"
    /\ LET party == IF 1 \in call.uploaded THEN 2 ELSE 1
       IN  /\ call' = [call EXCEPT !.uploaded = call.uploaded \cup {party},
                                   !.pc = IF party = 2 THEN "done" ELSE call.pc]
           /\ last' = Call("upload_party_results", <<party>>, "", None)
    /\ UNCHANGED <<embedder, edf, pickled, trains, sim>>

NextServer ==
    \/ DownloadEmbedder
    \/ PreparePartyAssets
    \/ PerformMatching
    \/ UploadPartyResults

SpecServer == InitServer /\ [][NextServer]_vars

\* The checksums of the two uploaded embedders differ.
Mismatch == Loads(pickled[1]).checksum # Loads(pickled[2]).checksum

====
